---------------------------- MODULE Spec2Model ----------------------------
(***************************************************************************)
(* A model of AvatarService (src/src/lib/services/avatarService.ts): the   *)
(* avatar engine's fields, the fallback DOM tree it writes, the callbacks  *)
(* it schedules (requestAnimationFrame, setTimeout, setInterval, the GLTF  *)
(* loader) and its public commands; and of what drives it: the page       *)
(* (src/src/routes/+page.svelte) with SpeechService                        *)
(* (src/src/lib/services/speechService.ts) and AIService with its          *)
(* ClientRateLimiter (src/src/lib/services/aiService.ts).                  *)
(*                                                                         *)
(* Conventions.  Influences, rotations, positions and scales are integers  *)
(* in thousandths (0.2 is 200).  Angles handed to Sin are centiradians.    *)
(* Time is counted in milliseconds relative to the moment a callback was   *)
(* scheduled; one display frame lasts FrameMs.  The JavaScript event loop  *)
(* is single threaded: the callbacks of one display frame run back to back *)
(* in registration order, and commands, timers and loader callbacks run    *)
(* between frames.                                                         *)
(***************************************************************************)
EXTENDS Integers, Sequences, FiniteSets, TLC

(***************************************************************************)
(* Bounds of the model.                                                    *)
(***************************************************************************)
\* milliseconds between two display frames (a slow display: every behaviour
\* of the model is a behaviour of the code on such a device)
FrameMs == 1000
\* speaking cycles (animateSpeaking callback chains) in flight at once
MaxCycles == 2
\* render callback chains (animate) in flight at once
MaxRenderLoops == 2
\* setTimeout callbacks pending at once
MaxTimers == 1
\* initialize calls waiting for the GLTF loader at once
MaxPending == 1
\* window resize listeners counted: the count saturates here
MaxListeners == 1
\* utterances handed to the speech synthesis in one session of the page
MaxUtterances == 3
\* sendMessage calls made in one session of the page
MaxMessages == 2
\* calls of sendMessage and toggleSpeaking suspended at an await at once
MaxTasks == 2
\* config.rateLimitConfig handed to the AIService (the page hands it 50
\* requests in 60000 ms; the limiter's code is the same for every value)
MaxRequests == 2
WindowMs == 3
\* Date.now() runs from 0 to MaxNow
MaxNow == 7
\* generateResponse calls made on the service directly and awaiting the
\* model at once
MaxInFlight == 1
\* clips in the animation list of an asset under SpecClips
MaxClips == 2
\* speakContinuous calls made under SpecQueue
MaxSpeakCalls == 4
\* startListening calls made under SpecListen
MaxListenCalls == 3

\* lengths of the texts handed to speak
TextLengths == {0, 2, 50}
\* the longest text handed to speak under SpecDuration
MaxTextLength == 40
\* the number of speak calls made under SpecTermination
MaxSpeaks == 2
\* emotion labels handed to setEmotion ("surprised" is not an EmotionMapping key)
EmotionInputs == {"neutral", "happy", "surprised"}
\* values handed to setStatus ("error" and "dancing" are outside the
\* TypeScript union)
StatusInputs == {"idle", "speaking", "error", "dancing"}
\* the initialize calls made: config.use3D, config.readyPlayerMeUrl set,
\* the container is an element, the WebGL renderer can be constructed
\* (one representative of each combination that initialize tells apart)
InitializeInputs ==
    { <<TRUE, TRUE, TRUE, TRUE>>, <<TRUE, TRUE, TRUE, FALSE>>,
      <<TRUE, TRUE, FALSE, TRUE>>, <<TRUE, FALSE, TRUE, TRUE>>,
      <<TRUE, FALSE, FALSE, TRUE>>, <<FALSE, FALSE, TRUE, TRUE>>,
      <<FALSE, FALSE, FALSE, TRUE>> }
\* Date.now() * 0.002 as read by the breathing interval, in centiradians
BreathTimes == {0, 157}

Max(a, b) == IF a >= b THEN a ELSE b
Min(a, b) == IF a <= b THEN a ELSE b

(***************************************************************************)
(* Math.sin, by Bhaskara's rational approximation: the argument is in      *)
(* centiradians (>= 0), the result in thousandths.                         *)
(***************************************************************************)
SinHalf(r) == (16 * r * (314 - r) * 1000) \div (5 * 314 * 314 - 4 * r * (314 - r))
Sin(x) ==
    LET r == x % 628
    IN  IF r <= 314 THEN SinHalf(r) ELSE 0 - SinHalf(r - 314)

\* a product of two thousandths, truncated toward zero as a thousandth
Mul(a, b) ==
    LET p == a * b
    IN  IF p >= 0 THEN p \div 1000 ELSE 0 - ((0 - p) \div 1000)

(***************************************************************************)
(* The GLB assets a load can deliver: the clips of gltf.animations (name,  *)
(* duration in ms) and the meshes exposing morphTargetInfluences, each     *)
(* with the target names of its morphTargetDictionary.                     *)
(***************************************************************************)
HeadTargets == {"mouthOpen", "viseme_O", "mouthSmile", "browDown"}
AssetAnimated ==
    [clips  |-> << [name |-> "Talking", duration |-> 2000] >>,
     meshes |-> [Wolf3D_Head |-> HeadTargets]]
AssetStatic ==
    [clips  |-> << >>,
     meshes |-> [Wolf3D_Head |-> HeadTargets]]
Assets == {AssetAnimated, AssetStatic}

\* String.prototype.includes over the target names of the assets
Includes(targetName, part) ==
    CASE part = "mouth"  -> targetName \in {"mouthOpen", "mouthSmile", "mouthFrown", "mouth_open"}
      [] part = "jaw"    -> targetName \in {"jawOpen", "jaw_open"}
      [] part = "viseme" -> targetName \in {"viseme_O", "viseme_U"}
      [] OTHER           -> FALSE

VARIABLES
    \* AvatarService fields
    isInitialized, currentEmotion, isWebGLSupported, fallbackMode, use3D,
    scene, renderer, avatarModel, mixer, animationActions, currentAnimation,
    morphTargets, breathingInterval,
    \* the browser: container contents, scheduled callbacks, listeners
    dom, rafQueue, frame, timers, pendingLoads, resizeListeners,
    \* the outcome of the last call, and history of the calls made
    outcome, history,
    \* the page (+page.svelte), SpeechService with the browser's speech
    \* synthesis, AIService with its rate limiter, Date.now(), and the log
    \* of the canMakeRequest and generateResponse calls made
    page, speech, aiService, now, log

engineVars ==
    << isInitialized, currentEmotion, isWebGLSupported, fallbackMode, use3D,
       scene, renderer, avatarModel, mixer, animationActions, currentAnimation,
       morphTargets, breathingInterval, dom, rafQueue, timers, pendingLoads,
       resizeListeners >>
appVars == << page, speech, aiService, now, log >>
vars == << engineVars, frame, outcome, history, appVars >>

\* import { browser } from '$app/environment': the model covers the browser
browser == TRUE

(***************************************************************************)
(* The state as one record, so that a method that calls another composes.  *)
(***************************************************************************)
State ==
    [isInitialized |-> isInitialized, currentEmotion |-> currentEmotion,
     isWebGLSupported |-> isWebGLSupported, fallbackMode |-> fallbackMode,
     use3D |-> use3D, scene |-> scene, renderer |-> renderer,
     avatarModel |-> avatarModel, mixer |-> mixer,
     animationActions |-> animationActions, currentAnimation |-> currentAnimation,
     morphTargets |-> morphTargets, breathingInterval |-> breathingInterval,
     dom |-> dom, rafQueue |-> rafQueue, timers |-> timers,
     pendingLoads |-> pendingLoads, resizeListeners |-> resizeListeners]

Commit(s) ==
    /\ isInitialized' = s.isInitialized
    /\ currentEmotion' = s.currentEmotion
    /\ isWebGLSupported' = s.isWebGLSupported
    /\ fallbackMode' = s.fallbackMode
    /\ use3D' = s.use3D
    /\ scene' = s.scene
    /\ renderer' = s.renderer
    /\ avatarModel' = s.avatarModel
    /\ mixer' = s.mixer
    /\ animationActions' = s.animationActions
    /\ currentAnimation' = s.currentAnimation
    /\ morphTargets' = s.morphTargets
    /\ breathingInterval' = s.breathingInterval
    /\ dom' = s.dom
    /\ rafQueue' = s.rafQueue
    /\ timers' = s.timers
    /\ pendingLoads' = s.pendingLoads
    /\ resizeListeners' = s.resizeListeners

(***************************************************************************)
(* The container's contents.  "fallback" is the tree initializeFallback    *)
(* writes: .avatar-character (data-emotion, data-status, classes),         *)
(* .avatar-mouth (data-state), .status-text and .status-dot.               *)
(***************************************************************************)
NoDom == [kind |-> "empty"]
CanvasDom == [kind |-> "canvas"]
FallbackDom ==
    [kind |-> "fallback", emotion |-> "neutral", status |-> "unset",
     mouth |-> "idle", text |-> "Ready to help", dot |-> "unset",
     classes |-> {}]
HasFallbackTree(s) == s.dom.kind = "fallback"

\* this.avatarModel = gltf.scene, then scale.set(1,1,1), position.set(0,-0.2,0)
NoModel == [present |-> FALSE]
LoadedModel ==
    [present |-> TRUE, rotation |-> <<0, 0, 0>>, position |-> <<0, -200, 0>>,
     scale |-> 1000]

(***************************************************************************)
(* this.animationActions: the entries in Object.keys order, each the       *)
(* THREE.AnimationAction of one clip.  stale marks an action of a mixer    *)
(* that is no longer this.mixer.                                           *)
(***************************************************************************)
\* mixer.clipAction(clip) for the clip at place index (from 1) of
\* gltf.animations
NewAction(clip, index) ==
    [name |-> clip.name, duration |-> clip.duration, clip |-> index, stale |-> FALSE,
     time |-> 0, paused |-> FALSE, loop |-> "repeat", running |-> FALSE]

ObjectKeys(actions) == [i \in 1..Len(actions) |-> actions[i].name]

\* the index of this.animationActions[name], 0 when undefined
ActionIndex(actions, name) ==
    IF \E i \in 1..Len(actions) : actions[i].name = name
    THEN CHOOSE i \in 1..Len(actions) : actions[i].name = name
    ELSE 0

\* the array index a property key is, -1 when it is none: Object.keys lists
\* the keys that are array indices first, in ascending order, and then the
\* other keys in the order they were added
ArrayIndex(name) ==
    CASE name = "0" -> 0
      [] name = "1" -> 1
      [] name = "2" -> 2
      [] OTHER -> -1

\* the place a new key takes in Object.keys
KeyPlace(actions, name) ==
    IF ArrayIndex(name) < 0 THEN Len(actions) + 1
    ELSE 1 + Cardinality({i \in 1..Len(actions) :
                            /\ ArrayIndex(actions[i].name) >= 0
                            /\ ArrayIndex(actions[i].name) < ArrayIndex(name)})

InsertAt(seq, place, e) ==
    [j \in 1..(Len(seq) + 1) |->
        IF j < place THEN seq[j] ELSE IF j = place THEN e ELSE seq[j - 1]]

\* this.animationActions[clip.name] = action: an existing key keeps its place
PutAction(actions, clip, index) ==
    LET i == ActionIndex(actions, clip.name)
    IN  IF i = 0
        THEN InsertAt(actions, KeyPlace(actions, clip.name), NewAction(clip, index))
        ELSE [actions EXCEPT ![i] = NewAction(clip, index)]

\* gltf.animations.forEach from the clip at place index on
RECURSIVE PutActionsFrom(_, _, _)
PutActionsFrom(actions, clips, index) ==
    IF index > Len(clips) THEN actions
    ELSE PutActionsFrom(PutAction(actions, clips[index], index), clips, index + 1)

PutActions(actions, clips) == PutActionsFrom(actions, clips, 1)

\* playAnimation(animationName, loop): action.reset(), setLoop, play(); the
\* cross-fade weights (fadeOut/fadeIn) are not modelled
playAnimation(s, animationName, loop) ==
    LET i == ActionIndex(s.animationActions, animationName)
    IN  IF ~s.mixer \/ i = 0 THEN s
        ELSE [s EXCEPT
                !.animationActions[i] =
                    [@ EXCEPT !.time = 0, !.paused = FALSE,
                              !.loop = IF loop THEN "repeat" ELSE "once",
                              !.running = TRUE],
                !.currentAnimation = animationName]

\* if (this.currentAnimation) { time = 0; paused = true }
FreezeCurrent(s) ==
    LET i == ActionIndex(s.animationActions, s.currentAnimation)
    IN  IF s.currentAnimation = "none" \/ i = 0 THEN s
        ELSE [s EXCEPT !.animationActions[i] = [@ EXCEPT !.time = 0, !.paused = TRUE]]

setMorphTarget(s, meshName, targetName, influence) ==
    IF meshName \notin DOMAIN s.morphTargets THEN s
    ELSE IF targetName \notin DOMAIN s.morphTargets[meshName] THEN s
    ELSE [s EXCEPT !.morphTargets[meshName][targetName] = influence]

\* the target names of the registered meshes' morphTargetDictionary
TargetNames(s) == UNION {DOMAIN s.morphTargets[m] : m \in DOMAIN s.morphTargets}

\* every target of every registered mesh in the domain of values is written
\* its value; the others are left alone
WriteTargets(s, values) ==
    [s EXCEPT !.morphTargets =
        [m \in DOMAIN s.morphTargets |->
            [t \in DOMAIN s.morphTargets[m] |->
                IF t \in DOMAIN values THEN values[t] ELSE s.morphTargets[m][t]]]]

startManualBreathingLoop(s) ==
    IF s.breathingInterval THEN s ELSE [s EXCEPT !.breathingInterval = TRUE]

stopManualBreathingLoop(s) ==
    IF ~s.breathingInterval THEN s
    ELSE LET t == [s EXCEPT !.breathingInterval = FALSE]
         IN  IF t.avatarModel.present
             THEN [t EXCEPT !.avatarModel.scale = 1000,
                            !.avatarModel.position[2] = -200]
             ELSE t

\* a startAnimationLoop that plays the clip once
startAnimationLoopOnce(s) ==
    IF ~s.use3D \/ s.fallbackMode
    THEN IF HasFallbackTree(s)
         THEN [s EXCEPT !.dom.classes = @ \cup {"speaking-active"}]
         ELSE s
    ELSE IF Len(s.animationActions) > 0
         THEN playAnimation(s, ObjectKeys(s.animationActions)[1], FALSE)
         ELSE startManualBreathingLoop(s)

startAnimationLoop(s) ==
    IF ~s.use3D \/ s.fallbackMode
    THEN IF HasFallbackTree(s)
         THEN [s EXCEPT !.dom.classes = @ \cup {"speaking-active"}]
         ELSE s
    ELSE IF Len(s.animationActions) > 0
         THEN playAnimation(s, ObjectKeys(s.animationActions)[1], TRUE)
         ELSE startManualBreathingLoop(s)

stopAnimationLoop(s) ==
    IF ~s.use3D \/ s.fallbackMode
    THEN IF HasFallbackTree(s)
         THEN [s EXCEPT !.dom.classes = @ \ {"speaking-active"}]
         ELSE s
    ELSE IF Len(s.animationActions) > 0
         THEN FreezeCurrent(playAnimation(s, ObjectKeys(s.animationActions)[1], FALSE))
         ELSE stopManualBreathingLoop(s)

\* setTimeout(callback, delay)
SetTimeout(s, timer) == [s EXCEPT !.timers = Append(@, timer)]

playFunAnimation(s) ==
    IF ~s.use3D \/ s.fallbackMode
    THEN IF HasFallbackTree(s)
         THEN SetTimeout([s EXCEPT !.dom.classes = @ \cup {"bounce-animation"}],
                         [kind |-> "bounceEnd", remaining |-> 1500,
                          detached |-> FALSE, arg |-> "none",
                          superseded |-> FALSE])
         ELSE s
    ELSE IF Len(s.animationActions) > 0
         THEN SetTimeout(playAnimation(s, ObjectKeys(s.animationActions)[1], FALSE),
                         [kind |-> "funReset",
                          remaining |-> s.animationActions[1].duration + 100,
                          detached |-> FALSE,
                          arg |-> ObjectKeys(s.animationActions)[1],
                          superseded |-> FALSE])
         ELSE s

(***************************************************************************)
(* speak3D's frame callback.  A cycle is the closure of one speak3D call:  *)
(* the time elapsed since its startTime and its duration.                  *)
(***************************************************************************)
\* a duration estimate without the floor
Duration3DNoFloor(textLength) == textLength * 60

Duration3D(textLength) == Max(textLength * 60, 2000)
DurationFallback(textLength) == Max(textLength * 60, 1000)

\* timeVar = elapsed * 0.008 rad, times k/10, in centiradians
TimeVar(elapsed, k10) == (elapsed * 8 * k10) \div 100
MouthOpen(elapsed) ==
    200 + Mul(Sin(TimeVar(elapsed, 30)), 300) + Mul(Sin(TimeVar(elapsed, 70)), 150)
JawOpen(elapsed) == 150 + Mul(Sin(TimeVar(elapsed, 25)), 200)
HeadSway(elapsed) == Mul(Sin(TimeVar(elapsed, 15)), 100)
HeadNod(elapsed) == Mul(Sin(TimeVar(elapsed, 20)), 50)
ShoulderMove(elapsed) == Mul(Sin(TimeVar(elapsed, 12)), 30)

mouthTargets == {"mouthOpen", "jawOpen", "mouth_open", "viseme_O", "viseme_U"}
jawTargets == {"jawOpen", "jaw_open", "mouthOpen"}

\* progress < 1 && this.use3D && this.avatarModel
CycleApplies(s, c) == c.elapsed < c.duration /\ s.use3D /\ s.avatarModel.present

\* the rotation and the mouth targets a frame at this elapsed time writes: the
\* jawTargets loop runs after the mouthTargets loop and wins where both match
ApplySpeechMotion(s, c) ==
    LET r == s.avatarModel.rotation
        t == [s EXCEPT !.avatarModel.rotation =
                << HeadNod(c.elapsed), r[2] + HeadSway(c.elapsed),
                   ShoulderMove(c.elapsed) >>]
    IN  WriteTargets(t, [n \in mouthTargets \cup jawTargets |->
                            IF n \in jawTargets THEN JawOpen(c.elapsed)
                            ELSE MouthOpen(c.elapsed)])

ResetSpeechMotion(s) ==
    LET t == IF s.avatarModel.present
             THEN [s EXCEPT !.avatarModel.rotation = <<0, 0, 0>>]
             ELSE s
        written == {n \in TargetNames(t) :
                        Includes(n, "mouth") \/ Includes(n, "jaw") \/ Includes(n, "viseme")}
    IN  WriteTargets(t, [n \in written |-> 0])

\* requestAnimationFrame(callback)
AnimateCallback ==
    [kind |-> "animate", elapsed |-> 0, duration |-> 0, cancelled |-> FALSE]
RequestAnimationFrame(s, callback) == [s EXCEPT !.rafQueue = Append(@, callback)]

\* an animateSpeaking that resets when the duration has elapsed but keeps
\* scheduling itself
animateSpeakingNoStop(s, c) ==
    IF CycleApplies(s, c)
    THEN RequestAnimationFrame(ApplySpeechMotion(s, c), c)
    ELSE RequestAnimationFrame(ResetSpeechMotion(s), c)

animateSpeaking(s, c) ==
    IF CycleApplies(s, c)
    THEN RequestAnimationFrame(ApplySpeechMotion(s, c), c)
    ELSE ResetSpeechMotion(s)

speak3D(s, textLength) ==
    animateSpeaking(startAnimationLoop(s),
                    [kind |-> "animateSpeaking", elapsed |-> 0,
                     duration |-> Duration3D(textLength), cancelled |-> FALSE])

speakFallback(s, textLength) ==
    IF HasFallbackTree(s)
    THEN SetTimeout([s EXCEPT !.dom.mouth = "speaking", !.dom.status = "speaking",
                              !.dom.text = "Speaking..."],
                    [kind |-> "speechEnd",
                     remaining |-> DurationFallback(textLength),
                     detached |-> FALSE, arg |-> "none", superseded |-> FALSE])
    ELSE s

\* the body of speak once the isInitialized check has passed
speak(s, textLength) ==
    IF s.use3D /\ ~s.fallbackMode THEN speak3D(s, textLength)
    ELSE speakFallback(s, textLength)

(***************************************************************************)
(* Emotion and status.                                                     *)
(***************************************************************************)
emotionMorphs(emotion) ==
    CASE emotion = "happy"       -> [mouthSmile |-> 800, eyeSquint |-> 300]
      [] emotion = "concerned"   -> [browDown |-> 600, mouthFrown |-> 500]
      [] emotion = "focused"     -> [browDown |-> 300, eyeSquint |-> 500]
      [] emotion = "encouraging" -> [mouthSmile |-> 600, browUp |-> 400]
      [] OTHER                   -> << >>

\* a setEmotion3D that applies the profile without clearing first
setEmotion3DStacking(s, emotion) ==
    LET targets == emotionMorphs(emotion)
    IN  WriteTargets(s, [n \in DOMAIN targets |-> targets[n]])

\* a setEmotion3D that adds the profile to the influences in place
setEmotion3DAdditive(s, emotion) ==
    LET targets == emotionMorphs(emotion)
    IN  [s EXCEPT !.morphTargets =
            [m \in DOMAIN s.morphTargets |->
                [n \in DOMAIN s.morphTargets[m] |->
                    IF n \in DOMAIN targets
                    THEN Min(s.morphTargets[m][n] + targets[n], 1000)
                    ELSE 0]]]

setEmotion3D(s, emotion) ==
    LET targets == emotionMorphs(emotion)
    IN  WriteTargets(s, [n \in TargetNames(s) |->
                            IF n \in DOMAIN targets THEN targets[n] ELSE 0])

setEmotion(s, emotion) ==
    IF ~s.isInitialized \/ ~browser THEN s
    ELSE LET t == [s EXCEPT !.currentEmotion = emotion]
         IN  IF t.use3D /\ ~t.fallbackMode THEN setEmotion3D(t, emotion)
             ELSE IF HasFallbackTree(t) THEN [t EXCEPT !.dom.emotion = emotion]
             ELSE t

StatusText(status) ==
    CASE status = "idle"      -> "Ready to help"
      [] status = "listening" -> "Listening..."
      [] status = "speaking"  -> "Speaking..."
      [] status = "thinking"  -> "Thinking..."

StatusDot(status) ==
    CASE status = "idle"      -> "#4ade80"
      [] status = "listening" -> "#f59e0b"
      [] status = "speaking"  -> "#3b82f6"
      [] status = "thinking"  -> "#8b5cf6"

\* a setStatus that starts the speaking animation on every call
setStatusRestarting(s, status) ==
    LET t == IF ~s.isInitialized \/ ~browser THEN s
             ELSE IF ~HasFallbackTree(s) THEN s
             ELSE IF status \in {"idle", "listening", "speaking", "thinking"}
                  THEN [s EXCEPT !.dom.status = status, !.dom.text = StatusText(status),
                                 !.dom.dot = StatusDot(status)]
                  ELSE [s EXCEPT !.dom.status = status]
    IN  IF s.isInitialized /\ status = "speaking" THEN startAnimationLoop(t) ELSE t

setStatus(s, status) ==
    IF ~s.isInitialized \/ ~browser THEN s
    ELSE IF ~HasFallbackTree(s) THEN s
    ELSE IF status \in {"idle", "listening", "speaking", "thinking"}
         THEN [s EXCEPT !.dom.status = status, !.dom.text = StatusText(status),
                        !.dom.dot = StatusDot(status)]
         ELSE [s EXCEPT !.dom.status = status]

stopSpeaking(s) ==
    IF browser /\ HasFallbackTree(s)
    THEN [s EXCEPT !.dom.mouth = "idle", !.dom.status = "idle"]
    ELSE s

getCapabilities(s) ==
    [webgl |-> s.isWebGLSupported, talkingHead |-> FALSE,
     fallbackMode |-> s.fallbackMode]
getCurrentEmotion(s) == s.currentEmotion
isReady(s) == s.isInitialized

(***************************************************************************)
(* Lifecycle.                                                              *)
(***************************************************************************)
\* action.stop(); action.reset() on every entry of this.animationActions
StopAllActions(s) ==
    [s EXCEPT !.animationActions =
        [i \in 1..Len(@) |-> [@[i] EXCEPT !.time = 0, !.paused = FALSE,
                                          !.running = FALSE]]]

fullReset(s) ==
    LET s1 == stopManualBreathingLoop(s)
        s2 == IF s1.mixer THEN StopAllActions(s1) ELSE s1
        s3 == IF Len(s2.animationActions) > 0
              THEN FreezeCurrent(playAnimation(s2, ObjectKeys(s2.animationActions)[1], FALSE))
              ELSE s2
        s4 == IF s3.avatarModel.present
              THEN [s3 EXCEPT !.avatarModel.rotation = <<0, 0, 0>>,
                              !.avatarModel.position = <<0, -200, 0>>,
                              !.avatarModel.scale = 1000]
              ELSE s3
        s5 == WriteTargets(s4, [n \in TargetNames(s4) |-> 0])
    IN  [s5 EXCEPT !.currentAnimation = "none"]

\* window.removeEventListener('resize', this.onWindowResize.bind(this)): the
\* bound function is a new one, which was never registered, so no listener
\* is removed
RemoveResizeListener(s) == s

destroy(s) ==
    LET s1 == stopManualBreathingLoop(stopSpeaking(s))
        s2 == [s1 EXCEPT !.renderer = FALSE, !.scene = FALSE, !.mixer = FALSE]
        s3 == IF browser THEN RemoveResizeListener(s2) ELSE s2
    IN  [s3 EXCEPT !.animationActions = << >>, !.morphTargets = << >>,
                   !.avatarModel = NoModel, !.currentAnimation = "none",
                   !.isInitialized = FALSE]

\* container.innerHTML = ...: the elements a pending timer holds are no
\* longer in the document
SetInnerHTML(s, contents) ==
    [s EXCEPT !.dom = contents,
              !.timers = [i \in 1..Len(@) |->
                            IF @[i].kind \in {"speechEnd", "bounceEnd"}
                            THEN [@[i] EXCEPT !.detached = TRUE] ELSE @[i]]]

initializeFallback(s) ==
    [SetInnerHTML(s, FallbackDom) EXCEPT !.fallbackMode = TRUE, !.isInitialized = TRUE]

\* initialize3DAvatar up to the await of loadReadyPlayerMeAvatar, when the
\* renderer can be constructed
Begin3DAvatar(s) ==
    [SetInnerHTML(s, CanvasDom) EXCEPT !.scene = TRUE, !.renderer = TRUE]

\* the same when new THREE.WebGLRenderer throws
Begin3DAvatarNoRenderer(s) == [SetInnerHTML(s, NoDom) EXCEPT !.scene = TRUE]

\* the catch block of initialize, when the fallback can be built
CatchInitialize(s) ==
    initializeFallback([s EXCEPT !.use3D = FALSE, !.fallbackMode = TRUE])

\* mixer.update(deltaTime): every running action of this.mixer advances
AdvanceAction(a, delta) ==
    IF a.stale \/ ~a.running \/ a.paused \/ delta = 0 THEN a
    ELSE IF a.loop = "repeat" THEN [a EXCEPT !.time = (@ + delta) % a.duration]
    ELSE IF a.time + delta >= a.duration
         THEN [a EXCEPT !.time = a.duration, !.paused = TRUE]
         ELSE [a EXCEPT !.time = @ + delta]

MixerUpdate(s, delta) ==
    IF ~s.mixer THEN s
    ELSE [s EXCEPT !.animationActions =
            [i \in 1..Len(@) |-> AdvanceAction(@[i], delta)]]

animate(s, delta) ==
    IF ~s.renderer \/ ~s.scene THEN s
    ELSE MixerUpdate(RequestAnimationFrame(s, AnimateCallback), delta)

\* the onLoad callback of loader.load
OnLoad(s, asset) ==
    LET s1 == [s EXCEPT !.avatarModel = LoadedModel]
        s2 == IF Len(asset.clips) > 0
              THEN LET old == [i \in 1..Len(s1.animationActions) |->
                                  [s1.animationActions[i] EXCEPT !.stale = TRUE]]
                       t == [s1 EXCEPT !.mixer = TRUE,
                                       !.animationActions = PutActions(old, asset.clips)]
                   IN  FreezeCurrent(playAnimation(t, ObjectKeys(t.animationActions)[1], FALSE))
              ELSE s1
    IN  [s2 EXCEPT !.morphTargets =
            [m \in DOMAIN s2.morphTargets \cup DOMAIN asset.meshes |->
                IF m \in DOMAIN asset.meshes
                THEN [n \in asset.meshes[m] |-> 0]
                ELSE s2.morphTargets[m]]]

\* initialize3DAvatar after the await: animate(), addEventListener, flags
Finish3DAvatar(s, delta) ==
    [animate(s, delta) EXCEPT !.resizeListeners = Min(@ + 1, MaxListeners),
                              !.isInitialized = TRUE, !.fallbackMode = FALSE]

(***************************************************************************)
(* initialize(container, config).  The inputs: config.use3D, whether       *)
(* config.readyPlayerMeUrl is set, whether the container is an element     *)
(* (container.innerHTML throws on undefined) and whether the WebGL         *)
(* renderer can be constructed.  The result is the state when the call     *)
(* returns or suspends, and what its promise does.                         *)
(***************************************************************************)
initialize(s, cfgUse3D, hasUrl, containerOk, rendererOk) ==
    LET s0 == [s EXCEPT !.use3D = cfgUse3D /\ s.isWebGLSupported]
        caught == [s0 EXCEPT !.use3D = FALSE, !.fallbackMode = TRUE]
    IN  IF s0.use3D /\ hasUrl
        THEN IF containerOk /\ rendererOk
             THEN [s |-> [Begin3DAvatar(s0) EXCEPT
                            !.pendingLoads = Append(@, [beforeDestroy |-> FALSE])],
                   result |-> "pending", failed3D |-> FALSE]
             ELSE IF containerOk
             THEN [s |-> CatchInitialize(Begin3DAvatarNoRenderer(s0)),
                   result |-> "resolved", failed3D |-> TRUE]
             ELSE [s |-> caught, result |-> "rejected", failed3D |-> TRUE]
        ELSE IF containerOk
             THEN [s |-> initializeFallback(s0), result |-> "resolved",
                   failed3D |-> FALSE]
             ELSE [s |-> IF s0.use3D THEN caught ELSE s0, result |-> "rejected",
                   failed3D |-> FALSE]

\* initialize resumed by the loader's onLoad
ResumeLoaded(s, asset, delta) ==
    [s |-> Finish3DAvatar(OnLoad(s, asset), delta), result |-> "resolved",
     failed3D |-> FALSE]

\* initialize resumed by the loader's onError: reject, then the catch block
ResumeLoadError(s) ==
    IF s.use3D
    THEN [s |-> CatchInitialize(s), result |-> "resolved", failed3D |-> TRUE]
    ELSE [s |-> s, result |-> "rejected", failed3D |-> TRUE]

(***************************************************************************)
(* History kept for the properties: it never influences the engine.        *)
(***************************************************************************)
\* a speaking cycle in flight when stopSpeaking or setStatus('idle') is called
MarkCancelled(s) ==
    [s EXCEPT !.rafQueue = [i \in 1..Len(@) |->
                              IF @[i].kind = "animateSpeaking"
                              THEN [@[i] EXCEPT !.cancelled = TRUE] ELSE @[i]]]

\* a timer pending when a newer status command is issued
MarkSuperseded(s) ==
    [s EXCEPT !.timers = [i \in 1..Len(@) |->
                            IF @[i].kind = "speechEnd"
                            THEN [@[i] EXCEPT !.superseded = TRUE] ELSE @[i]]]

\* a load pending when destroy is called
MarkBeforeDestroy(s) ==
    [s EXCEPT !.pendingLoads = [i \in 1..Len(@) |-> [beforeDestroy |-> TRUE]]]

\* what the last call did: returned, threw, or (initialize) left its promise
\* pending, resolved or rejected; failed3D: the 3D setup of that initialize
\* call failed; containerOk: its container could hold the fallback tree
Outcome(call, result) ==
    [call |-> call, result |-> result, failed3D |-> FALSE, containerOk |-> TRUE]

RemoveAt(seq, i) == [j \in 1..(Len(seq) - 1) |-> IF j < i THEN seq[j] ELSE seq[j + 1]]

RenderLoops(queue) == Cardinality({i \in 1..Len(queue) : queue[i].kind = "animate"})
Cycles(queue) == {i \in 1..Len(queue) : queue[i].kind = "animateSpeaking"}

Idle == frame = << >>

(***************************************************************************)
(* SpeechService (speechService.ts) with window.speechSynthesis.           *)
(* speech.synthesis: the browser has speechSynthesis.  speech.spoken: the  *)
(* utterance handed to synthesis.speak that has neither ended nor been     *)
(* cancelled (0: none); speech.started: its start event was delivered.     *)
(* speech.events: the utterances that synthesis.cancel() removed and whose *)
(* end or error event the browser has still to deliver.  speech.created:   *)
(* the utterances created so far; an utterance is named by its number,    *)
(* and speech.texts[u] is the text of utterance u.  speech.heard: the      *)
(* texts of the utterances of speakContinuous that the synthesis spoke to   *)
(* their end, in order.                                                    *)
(* speech.speechQueue: the field of that name.  speech.loops: the          *)
(* utterances whose promise a processSpechQueue loop awaits.               *)
(* speech.calls: the speakContinuous calls made; the text of call n is n.  *)
(***************************************************************************)
SpeechService_stopSpeaking(sp) ==
    LET cancel == IF sp.synthesis /\ sp.spoken # 0
                  THEN [sp EXCEPT !.events = Append(@, sp.spoken),
                                  !.spoken = 0, !.started = FALSE]
                  ELSE sp
    IN  [cancel EXCEPT !.currentUtterance = 0, !.isSpeaking = FALSE,
                       !.speechQueue = << >>]

speakWithWebAPI(sp, text) ==
    [sp EXCEPT !.created = @ + 1, !.currentUtterance = sp.created + 1,
               !.spoken = sp.created + 1, !.started = FALSE,
               !.texts = Append(@, text)]

\* promise: the utterance whose end or error settles the promise returned,
\* 0 when the promise is rejected at once
SpeechService_speak(sp, text) ==
    LET stopped == SpeechService_stopSpeaking(sp)
    IN  IF stopped.synthesis
        THEN [sp |-> speakWithWebAPI(stopped, text), promise |-> stopped.created + 1]
        ELSE [sp |-> stopped, promise |-> 0]

\* currentUtterance.onstart
onstart(sp) == [sp EXCEPT !.isSpeaking = TRUE]

\* currentUtterance.onend and currentUtterance.onerror, before they settle
\* the promise
onend(sp) == [sp EXCEPT !.currentUtterance = 0, !.isSpeaking = FALSE]

\* processSpechQueue from the top of its while loop to its next await that
\* waits for an event: it shifts a text and awaits speak(text); a text that
\* is the empty string (0) is skipped; a promise rejected at once is caught
\* and the loop goes on
RECURSIVE processSpechQueue(_)
processSpechQueue(sp) ==
    IF sp.speechQueue = << >> THEN sp
    ELSE LET text == Head(sp.speechQueue)
             shifted == [sp EXCEPT !.speechQueue = Tail(@)]
         IN  IF text = 0 THEN processSpechQueue(shifted)
             ELSE LET r == SpeechService_speak(shifted, text)
                  IN  IF r.promise = 0 THEN processSpechQueue(r.sp)
                      ELSE [r.sp EXCEPT !.loops = @ \cup {r.promise}]

speakContinuous(sp, text) ==
    LET pushed == [sp EXCEPT !.speechQueue = Append(@, text)]
    IN  IF ~pushed.isSpeaking THEN processSpechQueue(pushed) ELSE pushed

\* the promise of speak for this utterance settles: the loop awaiting it,
\* if there is one, goes on
AfterUtterance(sp, utterance) ==
    IF utterance \in sp.loops
    THEN processSpechQueue([sp EXCEPT !.loops = @ \ {utterance}])
    ELSE sp

(***************************************************************************)
(* Speech recognition: the service's recognition object and isListening    *)
(* field, and the browser's recognizer.  rec.session: the recognizer is    *)
(* idle, starting (start() was called and the start event is to come),     *)
(* active, or ending (stop() was called or an error occurred, and the end  *)
(* event is to come).  rec.handlers: the startListening call whose         *)
(* closures are the recognizer's onstart, onerror and onend (0: none).     *)
(* rec.starts: the recognition.start() calls made.  rec.promises[n]: the   *)
(* promise of the n-th startListening call.  rec.stopped: stopListening()  *)
(* has returned and startListening was not called since.                   *)
(***************************************************************************)
NoRecognition ==
    [recognition |-> TRUE, isListening |-> FALSE, session |-> "idle",
     handlers |-> 0, starts |-> 0, promises |-> << >>, stopped |-> FALSE]

\* recognition.start(): InvalidStateError when start() was called before
\* and neither an error nor an end event has fired since
RecognitionStart(r, call) ==
    IF r.session = "idle"
    THEN [r EXCEPT !.starts = @ + 1, !.session = "starting"]
    ELSE [r EXCEPT !.starts = @ + 1, !.promises[call] = "InvalidStateError"]

startListening(r) ==
    LET call == Len(r.promises) + 1
        r0 == [r EXCEPT !.stopped = FALSE, !.promises = Append(@, "pending")]
    IN  IF ~r.recognition
        THEN [r0 EXCEPT !.promises[call] = "Speech recognition not available"]
        ELSE IF r.isListening
        THEN [r0 EXCEPT !.promises[call] = "Already listening"]
        ELSE RecognitionStart([r0 EXCEPT !.handlers = call], call)

\* recognition.stop() has an effect on an active recognizer only
stopListening(r) ==
    LET r0 == [r EXCEPT !.stopped = TRUE]
    IN  IF r.recognition /\ r.isListening
        THEN [r0 EXCEPT !.isListening = FALSE,
                        !.session = IF @ = "active" THEN "ending" ELSE @]
        ELSE r0

getListeningStatus(r) == r.isListening

\* a promise that is settled stays as it is
Settle(r, call, value) ==
    IF call # 0 /\ r.promises[call] = "pending"
    THEN [r EXCEPT !.promises[call] = value] ELSE r

\* recognition.onstart, onerror and onend as the latest startListening set them
recognitionOnstart(r) == Settle([r EXCEPT !.isListening = TRUE], r.handlers, "resolved")
recognitionOnerror(r) == Settle([r EXCEPT !.isListening = FALSE], r.handlers, "error")
recognitionOnend(r) == [r EXCEPT !.isListening = FALSE]

(***************************************************************************)
(* ClientRateLimiter and AIService (aiService.ts).  Times are in           *)
(* milliseconds of Date.now().                                             *)
(***************************************************************************)
FilterRequests(requests, time, windowMs) ==
    SelectSeq(requests, LAMBDA t : time - t < windowMs)

\* a canMakeRequest whose window also holds the request made exactly
\* windowMs ago
canMakeRequestInclusive(limiter, time) ==
    LET kept == SelectSeq(limiter.requests, LAMBDA t : time - t <= limiter.windowMs)
    IN  IF Len(kept) < limiter.maxRequests
        THEN [limiter |-> [limiter EXCEPT !.requests = Append(kept, time)], result |-> TRUE]
        ELSE [limiter |-> [limiter EXCEPT !.requests = kept], result |-> FALSE]

canMakeRequest(limiter, time) ==
    LET kept == FilterRequests(limiter.requests, time, limiter.windowMs)
    IN  IF Len(kept) < limiter.maxRequests
        THEN [limiter |-> [limiter EXCEPT !.requests = Append(kept, time)], result |-> TRUE]
        ELSE [limiter |-> [limiter EXCEPT !.requests = kept], result |-> FALSE]

MinOf(requests) ==
    CHOOSE t \in {requests[i] : i \in 1..Len(requests)} :
        \A i \in 1..Len(requests) : t <= requests[i]

getTimeUntilNextRequest(limiter, time) ==
    IF Len(limiter.requests) = 0 THEN 0
    ELSE Max(0, limiter.windowMs - (time - MinOf(limiter.requests)))

\* new ClientRateLimiter(maxRequests, windowMs)
ClientRateLimiter(maxRequests, windowMs) ==
    [requests |-> << >>, maxRequests |-> maxRequests, windowMs |-> windowMs]

\* new AIService(config); constructed: initializeGemini did not throw
\* instance: aiServiceInstance is set; inFlight: the model.generateContent
\* calls that have not settled
AIService(maxRequests, windowMs, constructed) ==
    [instance |-> TRUE, rateLimiter |-> ClientRateLimiter(maxRequests, windowMs),
     isInitialized |-> constructed, model |-> constructed, inFlight |-> 0]

NoAIService ==
    [instance |-> FALSE, rateLimiter |-> ClientRateLimiter(0, 0),
     isInitialized |-> FALSE, model |-> FALSE, inFlight |-> 0]

getAIService(ai, maxRequests, windowMs, constructed) ==
    IF ~ai.instance THEN AIService(maxRequests, windowMs, constructed) ELSE ai

\* a text (the reply, a blank and the user's message, in lower case) is the
\* sequence of its words, and so is a keyword; words are in lower case
HappyKeywords == {<< "great" >>, << "excellent" >>, << "perfect" >>}
ConcernedKeywords == {<< "problem" >>, << "issue" >>, << "trouble" >>, << "broken" >>}
FocusedKeywords == {<< "check" >>, << "inspect" >>, << "look", "at" >>, << "examine" >>}
EncouragingKeywords ==
    {<< "don't", "worry" >>, << "no", "problem" >>, << "easy", "fix" >>}
Keywords ==
    HappyKeywords \cup ConcernedKeywords \cup FocusedKeywords \cup EncouragingKeywords

\* text.includes(keyword): the words of the keyword occur in a row
TextIncludes(text, keyword) ==
    \E i \in 1..(Len(text) - Len(keyword) + 1) :
        SubSeq(text, i, i + Len(keyword) - 1) = keyword

IncludesAny(text, keywords) == \E keyword \in keywords : TextIncludes(text, keyword)

determineAvatarEmotion(text) ==
    IF IncludesAny(text, HappyKeywords) THEN "happy"
    ELSE IF IncludesAny(text, ConcernedKeywords) THEN "concerned"
    ELSE IF IncludesAny(text, FocusedKeywords) THEN "focused"
    ELSE IF IncludesAny(text, EncouragingKeywords) THEN "encouraging"
    ELSE "neutral"

\* generateResponse up to its await of model.generateContent
generateResponse(ai, time) ==
    IF ~ai.isInitialized \/ ~ai.model
    THEN [ai |-> ai, result |-> "rejected", error |-> "AI Service not initialized",
          modelCalled |-> FALSE]
    ELSE LET r == canMakeRequest(ai.rateLimiter, time)
         IN  IF ~r.result
             THEN [ai |-> [ai EXCEPT !.rateLimiter = r.limiter], result |-> "rejected",
                   error |-> "Rate limit exceeded", modelCalled |-> FALSE]
             ELSE [ai |-> [ai EXCEPT !.rateLimiter = r.limiter, !.inFlight = @ + 1],
                   result |-> "pending", error |-> "none", modelCalled |-> TRUE]

\* a generateResponse that lets the failure of the model call through
generateContentSettlesRethrowing(answered, text) ==
    IF answered
    THEN [result |-> "resolved", emotion |-> determineAvatarEmotion(text),
          fallback |-> FALSE]
    ELSE [result |-> "rejected", emotion |-> "none", fallback |-> FALSE]

\* generateResponse from the settling of model.generateContent: answered is
\* FALSE when the call, result.response or response.text() throws
generateContentSettles(answered, text) ==
    IF answered
    THEN [result |-> "resolved", emotion |-> determineAvatarEmotion(text),
          fallback |-> FALSE]
    ELSE [result |-> "resolved", emotion |-> "concerned", fallback |-> TRUE]

(***************************************************************************)
(* log: what the calls made so far on the rate limiter and on the AI       *)
(* service returned.  log.admitted: the times of the canMakeRequest calls  *)
(* that returned true.  log.asked, log.within, log.answer: a canMakeRequest *)
(* call has been made, the number of admitted requests less than windowMs  *)
(* old when the last one was made, and what it returned.  log.generated,   *)
(* log.error, log.emotion, log.fallback: the state of the promise of the   *)
(* last generateResponse call to begin or to settle.  log.modelCalls: the  *)
(* model.generateContent calls made.  log.modelFailed: the model call of   *)
(* the last generateResponse call failed.  log.calledByLast: the last      *)
(* generateResponse call to begin called the model; log.callInitialized,   *)
(* log.callWithin: when it began, the service was initialized, and the     *)
(* number of admitted requests less than windowMs old.                     *)
(***************************************************************************)
Within(admitted, time, windowMs) ==
    Cardinality({i \in 1..Len(admitted) : time - admitted[i] < windowMs})

LogCanMakeRequest(lg, time, windowMs, result) ==
    [lg EXCEPT !.asked = TRUE, !.within = Within(lg.admitted, time, windowMs),
               !.answer = result,
               !.admitted = IF result THEN Append(@, time) ELSE @]

LogGenerateResponse(lg, ai, g, time) ==
    LET windowMs == ai.rateLimiter.windowMs
        l == IF g.error = "AI Service not initialized" THEN lg
             ELSE LogCanMakeRequest(lg, time, windowMs, g.modelCalled)
    IN  [l EXCEPT !.generated = g.result, !.error = g.error,
                  !.callInitialized = ai.isInitialized /\ ai.model,
                  !.callWithin = Within(lg.admitted, time, windowMs),
                  !.emotion = "none", !.fallback = FALSE, !.modelFailed = FALSE,
                  !.calledByLast = g.modelCalled,
                  !.modelCalls = @ + (IF g.modelCalled THEN 1 ELSE 0)]

LogSettled(lg, r, answered) ==
    [lg EXCEPT !.generated = r.result, !.error = "none", !.emotion = r.emotion,
               !.fallback = r.fallback, !.modelFailed = ~answered]

(***************************************************************************)
(* The page (src/src/routes/+page.svelte).  A handler works on the engine, *)
(* the page's variables, the speech service and the AI service at once:    *)
(* World is all of them as one record.  page.tasks: the calls of           *)
(* sendMessage and toggleSpeaking that are suspended at an await, with the *)
(* await they are at (stage) and, at the await of speechService.speak, the *)
(* utterance whose end they wait for.  page.sent: the sendMessage calls    *)
(* made.  page.hasAssistantMessage: $messages holds an assistant message.  *)
(***************************************************************************)
World ==
    [s |-> State, page |-> page, speech |-> speech, aiService |-> aiService,
     log |-> log]

CommitWorld(w) ==
    /\ Commit(w.s)
    /\ page' = w.page
    /\ speech' = w.speech
    /\ aiService' = w.aiService
    /\ log' = w.log

\* the finally block of speakResponse
speakResponseFinally(w) ==
    [w EXCEPT !.page.isSpeaking = FALSE, !.page.speechEnabled = FALSE,
              !.s = stopAnimationLoop(setStatus(w.s, "idle"))]

\* speakResponse up to its await of speechService.speak, and through its
\* finally block when that promise is rejected at once
speakResponse(w) ==
    LET w1 == [w EXCEPT !.page.isSpeaking = TRUE,
                        !.s = startAnimationLoop(setStatus(w.s, "speaking"))]
        r  == SpeechService_speak(w1.speech, 1)
        w2 == [w1 EXCEPT !.speech = r.sp]
    IN  IF r.promise = 0 THEN [w |-> speakResponseFinally(w2), promise |-> 0]
        ELSE [w |-> w2, promise |-> r.promise]

\* the finally block of sendMessage
sendMessageFinally(w) ==
    [w EXCEPT !.page.isLoading = FALSE, !.s = setStatus(w.s, "idle")]

\* what follows the return of speakResponse in its caller fn
AfterSpeakResponse(w, fn) ==
    IF fn = "sendMessage" THEN sendMessageFinally(w) ELSE w

\* await speakResponse(...) in fn: the call stays suspended while the
\* utterance is spoken
AwaitSpeakResponse(w, fn) ==
    LET r == speakResponse(w)
    IN  IF r.promise = 0 THEN AfterSpeakResponse(r.w, fn)
        ELSE [r.w EXCEPT !.page.tasks =
                Append(@, [fn |-> fn, stage |-> "speaking", utterance |-> r.promise])]

\* sendMessage from appActions.addMessage of the reply (of the model, of
\* the fallback branch or of the catch block) to the await of the 200 ms
\* timer; emotion is "none" where the code sets no emotion
sendMessageReply(w, emotion) ==
    [w EXCEPT !.page.hasAssistantMessage = TRUE, !.page.speechEnabled = TRUE,
              !.s = IF emotion = "none" THEN @ ELSE setEmotion(@, emotion),
              !.page.tasks = Append(@, [fn |-> "sendMessage", stage |-> "delay",
                                        utterance |-> 0])]

\* sendMessage with a message typed, up to its first await
sendMessage(w, time) ==
    LET w1 == [w EXCEPT !.page.isLoading = TRUE, !.page.sent = @ + 1,
                        !.s = setEmotion(setStatus(@, "thinking"), "focused")]
        g  == generateResponse(w1.aiService, time)
        w2 == [w1 EXCEPT !.aiService = g.ai,
                         !.log = LogGenerateResponse(@, w1.aiService, g, time)]
    IN  IF ~w.page.aiService THEN sendMessageReply(w1, "none")
        ELSE IF g.result = "pending"
             THEN [w2 EXCEPT !.page.tasks =
                     Append(@, [fn |-> "sendMessage", stage |-> "generating",
                                utterance |-> 0])]
             ELSE sendMessageReply(w2, "none")

toggleSpeaking(w) ==
    LET w1 == IF w.page.speechEnabled /\ w.page.isSpeaking
              THEN [w EXCEPT !.speech = SpeechService_stopSpeaking(@),
                             !.page.isSpeaking = FALSE,
                             !.s = setStatus(stopSpeaking(@), "idle")]
              ELSE w
        w2 == [w1 EXCEPT !.page.speechEnabled = ~@]
    IN  IF w2.page.speechEnabled
        THEN LET w3 == [w2 EXCEPT !.s = startAnimationLoop(@)]
             IN  IF w3.page.hasAssistantMessage /\ ~w3.page.isSpeaking
                 THEN AwaitSpeakResponse(w3, "toggleSpeaking")
                 ELSE w3
        ELSE [w2 EXCEPT !.speech = SpeechService_stopSpeaking(@),
                        !.page.isSpeaking = FALSE,
                        !.s = setStatus(stopAnimationLoop(stopSpeaking(@)), "idle")]

\* the rest of onMount once avatarService.initialize has settled: keyed is
\* whether an API key is configured, constructed whether initializeGemini
\* succeeds
onMountContinues(w, keyed, constructed, maxRequests, windowMs) ==
    [w EXCEPT !.page.mounted = TRUE, !.page.hasAssistantMessage = TRUE,
              !.page.aiService = keyed,
              !.aiService = IF keyed
                            THEN getAIService(@, maxRequests, windowMs, constructed)
                            ELSE @]

\* the page, the speech service and the AI service before onMount;
\* synthesis: the browser has window.speechSynthesis
InitApp(synthesis) ==
    /\ page = [mounted |-> FALSE, aiService |-> FALSE, isSpeaking |-> FALSE,
               speechEnabled |-> FALSE, isLoading |-> FALSE,
               hasAssistantMessage |-> FALSE, sent |-> 0, tasks |-> << >>]
    /\ speech = [synthesis |-> synthesis, currentUtterance |-> 0,
                 isSpeaking |-> FALSE, spoken |-> 0, started |-> FALSE,
                 events |-> << >>, created |-> 0, texts |-> << >>,
                 heard |-> << >>, speechQueue |-> << >>, loops |-> {},
                 calls |-> 0, rec |-> NoRecognition]
    /\ aiService = NoAIService
    /\ now = 0
    /\ log = [admitted |-> << >>, asked |-> FALSE, within |-> 0, answer |-> FALSE,
              generated |-> "none", error |-> "none", emotion |-> "none",
              fallback |-> FALSE, modelCalls |-> 0, modelFailed |-> FALSE,
              calledByLast |-> FALSE, callInitialized |-> FALSE, callWithin |-> 0,
              determined |-> FALSE, text |-> << >>]

InitEngine ==
    /\ isInitialized = FALSE
    /\ currentEmotion = "neutral"
    /\ isWebGLSupported \in BOOLEAN
    /\ fallbackMode = TRUE
    /\ use3D = FALSE
    /\ scene = FALSE
    /\ renderer = FALSE
    /\ avatarModel = NoModel
    /\ mixer = FALSE
    /\ animationActions = << >>
    /\ currentAnimation = "none"
    /\ morphTargets = << >>
    /\ breathingInterval = FALSE
    /\ dom = NoDom
    /\ rafQueue = << >>
    /\ frame = << >>
    /\ timers = << >>
    /\ pendingLoads = << >>
    /\ resizeListeners = 0
    /\ outcome = Outcome("none", "none")
    /\ history = [destroyed |-> FALSE, lastStatus |-> "none",
                  lastSetStatus |-> "none", repeated |-> FALSE,
                  resolved |-> FALSE, speaks |-> 0]

Init == InitEngine /\ InitApp(TRUE)

(***************************************************************************)
(* history.destroyed: destroy() has returned and initialize has not been   *)
(* called since.  history.lastStatus: the status the most recent command   *)
(* wrote to the fallback tree.  history.lastSetStatus: the argument of the *)
(* setStatus call that no other command, timer or loader callback has      *)
(* followed.  history.repeated: that call repeated the argument of a       *)
(* setStatus call which only frames separate from it.  history.resolved:   *)
(* a promise returned by initialize has resolved, and neither initialize   *)
(* nor destroy has been called since.  history.speaks: the speak calls     *)
(* counted so far (SpeakCounting with counted = 1).                        *)
(***************************************************************************)
Returned == Outcome("command", "returned")

Initialize(cfgUse3D, hasUrl, containerOk, rendererOk) ==
    /\ Idle
    /\ LET r == initialize(State, cfgUse3D, hasUrl, containerOk, rendererOk)
       IN  /\ r.result = "pending" =>
                /\ Len(pendingLoads) < MaxPending
                /\ RenderLoops(rafQueue) + Len(pendingLoads) < MaxRenderLoops
           /\ Commit(r.s)
           /\ outcome' = [call |-> "initialize", result |-> r.result,
                          failed3D |-> r.failed3D, containerOk |-> containerOk]
           /\ history' = [destroyed |-> FALSE,
                          lastStatus |-> IF containerOk THEN "none" ELSE history.lastStatus,
                          lastSetStatus |-> "none", repeated |-> FALSE,
                          resolved |-> (r.result = "resolved"),
                          speaks |-> history.speaks]
    /\ UNCHANGED frame
    /\ UNCHANGED appVars

LoadSucceeds(i, asset, delta) ==
    /\ Idle
    /\ i \in 1..Len(pendingLoads)
    /\ LET s == [State EXCEPT !.pendingLoads = RemoveAt(@, i)]
           r == ResumeLoaded(s, asset, delta)
       IN  /\ Commit(r.s)
           /\ outcome' = [call |-> "initialize", result |-> r.result,
                          failed3D |-> r.failed3D, containerOk |-> TRUE]
    /\ history' = [history EXCEPT !.lastSetStatus = "none", !.repeated = FALSE,
                                  !.resolved = TRUE]
    /\ UNCHANGED frame
    /\ UNCHANGED appVars

LoadFails(i) ==
    /\ Idle
    /\ i \in 1..Len(pendingLoads)
    /\ LET s == [State EXCEPT !.pendingLoads = RemoveAt(@, i)]
           r == ResumeLoadError(s)
       IN  /\ Commit(r.s)
           /\ outcome' = [call |-> "initialize", result |-> r.result,
                          failed3D |-> r.failed3D, containerOk |-> TRUE]
           /\ history' = [history EXCEPT
                            !.lastStatus = IF r.result = "resolved" THEN "none" ELSE @,
                            !.lastSetStatus = "none", !.repeated = FALSE,
                            !.resolved = IF r.result = "resolved" THEN TRUE ELSE @]
    /\ UNCHANGED frame
    /\ UNCHANGED appVars

\* speak(text); counted = 1 when the call counts towards MaxSpeaks
SpeakCounting(textLength, counted) ==
    /\ Idle
    /\ counted = 1 => history.speaks < MaxSpeaks
    /\ IF ~isInitialized
       THEN /\ UNCHANGED engineVars
            /\ outcome' = Outcome("command", "threw")
            /\ history' = [history EXCEPT !.lastSetStatus = "none", !.repeated = FALSE,
                                          !.speaks = @ + counted]
       ELSE /\ (use3D /\ ~fallbackMode) => Cardinality(Cycles(rafQueue)) < MaxCycles
            /\ ~(use3D /\ ~fallbackMode) => Len(timers) < MaxTimers
            /\ Commit(speak(IF HasFallbackTree(State) /\ ~(use3D /\ ~fallbackMode)
                            THEN MarkSuperseded(State) ELSE State,
                            textLength))
            /\ outcome' = Returned
            /\ history' = [history EXCEPT
                            !.lastStatus = IF HasFallbackTree(State) /\ ~(use3D /\ ~fallbackMode)
                                           THEN "speaking" ELSE @,
                            !.lastSetStatus = "none", !.repeated = FALSE,
                            !.speaks = @ + counted]
    /\ UNCHANGED frame
    /\ UNCHANGED appVars

Speak(textLength) == SpeakCounting(textLength, 0)

SetEmotion(emotion) ==
    /\ Idle
    /\ Commit(setEmotion(State, emotion))
    /\ outcome' = Returned
    /\ history' = [history EXCEPT !.lastSetStatus = "none", !.repeated = FALSE]
    /\ UNCHANGED frame
    /\ UNCHANGED appVars

SetStatus(status) ==
    /\ Idle
    /\ LET effective == isInitialized /\ HasFallbackTree(State)
           s0 == IF status = "idle" THEN MarkCancelled(State) ELSE State
           s1 == IF effective THEN MarkSuperseded(s0) ELSE s0
       IN  /\ Commit(setStatus(s1, status))
           /\ history' = [history EXCEPT
                            !.lastStatus = IF effective THEN status ELSE @,
                            !.lastSetStatus = status,
                            !.repeated = (history.lastSetStatus = status)]
    /\ outcome' = Returned
    /\ UNCHANGED frame
    /\ UNCHANGED appVars

StopSpeaking ==
    /\ Idle
    /\ Commit(stopSpeaking(MarkSuperseded(MarkCancelled(State))))
    /\ outcome' = Returned
    /\ history' = [history EXCEPT
                    !.lastStatus = IF HasFallbackTree(State) THEN "idle" ELSE @,
                    !.lastSetStatus = "none", !.repeated = FALSE]
    /\ UNCHANGED frame
    /\ UNCHANGED appVars

StartAnimationLoop ==
    /\ Idle
    /\ Commit(startAnimationLoop(State))
    /\ outcome' = Returned
    /\ history' = [history EXCEPT !.lastSetStatus = "none", !.repeated = FALSE]
    /\ UNCHANGED frame
    /\ UNCHANGED appVars

StopAnimationLoop ==
    /\ Idle
    /\ Commit(stopAnimationLoop(State))
    /\ outcome' = Returned
    /\ history' = [history EXCEPT !.lastSetStatus = "none", !.repeated = FALSE]
    /\ UNCHANGED frame
    /\ UNCHANGED appVars

PlayFunAnimation ==
    /\ Idle
    /\ Len(timers) < MaxTimers
    /\ Commit(playFunAnimation(State))
    /\ outcome' = Returned
    /\ history' = [history EXCEPT !.lastSetStatus = "none", !.repeated = FALSE]
    /\ UNCHANGED frame
    /\ UNCHANGED appVars

FullReset ==
    /\ Idle
    /\ Commit(fullReset(State))
    /\ outcome' = Outcome("fullReset", "returned")
    /\ history' = [history EXCEPT !.lastSetStatus = "none", !.repeated = FALSE]
    /\ UNCHANGED frame
    /\ UNCHANGED appVars

Destroy ==
    /\ Idle
    /\ Commit(destroy(MarkSuperseded(MarkCancelled(MarkBeforeDestroy(State)))))
    /\ outcome' = Outcome("destroy", "returned")
    /\ history' = [destroyed |-> TRUE,
                   lastStatus |-> IF HasFallbackTree(State) THEN "idle"
                                  ELSE history.lastStatus,
                   lastSetStatus |-> "none", repeated |-> FALSE,
                   resolved |-> FALSE, speaks |-> history.speaks]
    /\ UNCHANGED frame
    /\ UNCHANGED appVars

(***************************************************************************)
(* The browser's side: display frames, timers, the breathing interval.     *)
(***************************************************************************)
\* FrameMs pass and the next display frame begins: the callbacks registered
\* with requestAnimationFrame become this frame's callbacks
DisplayFrame ==
    /\ Idle
    /\ frame' = [i \in 1..Len(rafQueue) |->
                    IF rafQueue[i].kind = "animateSpeaking"
                    THEN [rafQueue[i] EXCEPT
                            !.elapsed = Min(@ + FrameMs, rafQueue[i].duration)]
                    ELSE rafQueue[i]]
    /\ Commit([State EXCEPT
                !.rafQueue = << >>,
                !.timers = [i \in 1..Len(@) |->
                              [@[i] EXCEPT !.remaining = Max(@ - FrameMs, 0)]]])
    /\ UNCHANGED outcome
    /\ UNCHANGED history
    /\ UNCHANGED appVars

\* this frame's next callback is animate: clock.getDelta() returns delta
AnimateFrame(delta) ==
    /\ frame # << >>
    /\ Head(frame).kind = "animate"
    /\ frame' = Tail(frame)
    /\ Commit(animate(State, delta))
    /\ UNCHANGED outcome
    /\ UNCHANGED history
    /\ UNCHANGED appVars

\* this frame's next callback is the animateSpeaking of a speaking cycle
AnimateSpeakingFrame ==
    /\ frame # << >>
    /\ Head(frame).kind = "animateSpeaking"
    /\ frame' = Tail(frame)
    /\ Commit(animateSpeaking(State, Head(frame)))
    /\ UNCHANGED outcome
    /\ UNCHANGED history
    /\ UNCHANGED appVars

\* the callback of a setTimeout whose delay has passed
timerCallback(s, timer) ==
    CASE timer.kind = "speechEnd" ->
            IF timer.detached THEN s
            ELSE [s EXCEPT !.dom.mouth = "idle", !.dom.status = "idle",
                           !.dom.text = "Ready to help"]
      [] timer.kind = "bounceEnd" ->
            IF timer.detached THEN s
            ELSE [s EXCEPT !.dom.classes = @ \ {"bounce-animation"}]
      [] timer.kind = "funReset" ->
            FreezeCurrent(playAnimation(s, timer.arg, FALSE))

TimerFires(i) ==
    /\ Idle
    /\ i \in 1..Len(timers)
    /\ timers[i].remaining = 0
    /\ Commit(timerCallback([State EXCEPT !.timers = RemoveAt(@, i)], timers[i]))
    /\ UNCHANGED outcome
    /\ history' = [history EXCEPT
                    !.lastStatus = IF timers[i].kind = "speechEnd"
                                      /\ ~timers[i].detached /\ ~timers[i].superseded
                                   THEN "idle" ELSE @,
                    !.lastSetStatus = "none", !.repeated = FALSE]
    /\ UNCHANGED frame
    /\ UNCHANGED appVars

\* the setInterval callback of startManualBreathingLoop; time is
\* Date.now() * 0.002 in centiradians
breathingCallback(s, time) ==
    IF s.avatarModel.present
    THEN [s EXCEPT !.avatarModel.scale = 1000 + Mul(Sin(time), 20),
                   !.avatarModel.position[2] = Mul(Sin((time * 8) \div 10), 10)]
    ELSE s

BreathingTick(time) ==
    /\ Idle
    /\ breathingInterval
    /\ Commit(breathingCallback(State, time))
    /\ UNCHANGED << frame, outcome, history >>
    /\ UNCHANGED appVars

\* the callbacks the browser runs
Callbacks ==
    \/ DisplayFrame
    \/ \E delta \in {0, FrameMs} : AnimateFrame(delta)
    \/ AnimateSpeakingFrame
    \/ \E i \in 1..MaxTimers : TimerFires(i)
    \/ \E time \in BreathTimes : BreathingTick(time)

\* the loader's answers
Loads ==
    \/ \E i \in 1..MaxPending, asset \in Assets, delta \in {0, FrameMs} :
            LoadSucceeds(i, asset, delta)
    \/ \E i \in 1..MaxPending : LoadFails(i)

(***************************************************************************)
(* The page's handlers and the events of the speech synthesis and of the   *)
(* model, as steps.  A handler runs when no frame is being processed.      *)
(* outcome and history follow the calls made on the engine directly and    *)
(* are left as they are by the page's steps.                               *)
(***************************************************************************)
PageStep(w) ==
    /\ Idle
    /\ CommitWorld(w)
    /\ UNCHANGED << frame, outcome, history, now >>

\* onMount resumes after await avatarService.initialize(...)
OnMountContinues(keyed, constructed) ==
    /\ isInitialized
    /\ ~page.mounted
    /\ PageStep(onMountContinues(World, keyed, constructed, MaxRequests, WindowMs))

\* sendMessage() with a message typed, by the send button or by a final
\* speech recognition result
SendMessage ==
    /\ page.sent < MaxMessages
    /\ Len(page.tasks) < MaxTasks
    /\ PageStep(sendMessage(World, now))

\* model.generateContent settles for the sendMessage call page.tasks[i]
ResponseArrives(i, answered, text) ==
    /\ i \in 1..Len(page.tasks)
    /\ page.tasks[i].stage = "generating"
    /\ LET r == generateContentSettles(answered, text)
           w == [World EXCEPT !.page.tasks = RemoveAt(@, i),
                              !.aiService.inFlight = @ - 1,
                              !.log = LogSettled(@, r, answered)]
       IN  PageStep(sendMessageReply(w, IF r.result = "resolved" THEN r.emotion
                                        ELSE "none"))

\* the 200 ms timer of the sendMessage call page.tasks[i] fires
DelayFires(i) ==
    /\ i \in 1..Len(page.tasks)
    /\ page.tasks[i].stage = "delay"
    /\ speech.created < MaxUtterances
    /\ PageStep(AwaitSpeakResponse([World EXCEPT !.page.tasks = RemoveAt(@, i)],
                                   "sendMessage"))

\* the speaker button
ToggleSpeaking ==
    /\ speech.created < MaxUtterances
    /\ Len(page.tasks) < MaxTasks
    /\ PageStep(toggleSpeaking(World))

\* the promise of speechService.speak for the utterance settles: the call
\* that awaits it runs the finally block of speakResponse and goes on
UtteranceSettled(w, utterance) ==
    LET i == CHOOSE j \in 1..Len(w.page.tasks) :
                /\ w.page.tasks[j].stage = "speaking"
                /\ w.page.tasks[j].utterance = utterance
        w1 == [w EXCEPT !.page.tasks = RemoveAt(@, i)]
    IN  AfterSpeakResponse(speakResponseFinally(w1), w.page.tasks[i].fn)

\* the browser delivers the start event of the utterance being spoken
SpeechStarts ==
    /\ speech.spoken # 0
    /\ ~speech.started
    /\ PageStep([World EXCEPT !.speech = onstart([@ EXCEPT !.started = TRUE])])

\* the utterance being spoken ends (failed = FALSE) or fails: the browser
\* delivers its end or error event
SpeechEnds(failed) ==
    /\ speech.spoken # 0
    /\ ~failed => speech.started
    /\ PageStep(UtteranceSettled(
            [World EXCEPT !.speech = onend([@ EXCEPT !.spoken = 0, !.started = FALSE])],
            speech.spoken))

\* the browser delivers the end or error event of an utterance that
\* synthesis.cancel() removed
CancelledSpeechEnds ==
    /\ speech.events # << >>
    /\ PageStep(UtteranceSettled(
            [World EXCEPT !.speech = onend([@ EXCEPT !.events = Tail(@)])],
            Head(speech.events)))

(***************************************************************************)
(* speakContinuous called on the speech service directly, and the events   *)
(* of its utterances.                                                      *)
(***************************************************************************)
\* speakContinuous(text) with the next text
SpeakContinuous ==
    /\ speech.calls < MaxSpeakCalls
    /\ PageStep([World EXCEPT
            !.speech = speakContinuous([@ EXCEPT !.calls = @ + 1], speech.calls + 1)])

\* the utterance being spoken was spoken to its end: the browser delivers
\* its end event
QueuedSpeechEnds ==
    /\ speech.spoken # 0
    /\ speech.started
    /\ PageStep([World EXCEPT
            !.speech = AfterUtterance(
                onend([@ EXCEPT !.spoken = 0, !.started = FALSE,
                                !.heard = Append(@, speech.texts[speech.spoken])]),
                speech.spoken)])

\* the browser delivers the end or error event of an utterance that
\* synthesis.cancel() removed
QueuedCancelledSpeechEnds ==
    /\ speech.events # << >>
    /\ PageStep([World EXCEPT
            !.speech = AfterUtterance(onend([@ EXCEPT !.events = Tail(@)]),
                                      Head(speech.events))])

(***************************************************************************)
(* startListening and stopListening called on the speech service, and the  *)
(* recognizer's events.                                                    *)
(***************************************************************************)
StartListening ==
    /\ Len(speech.rec.promises) < MaxListenCalls
    /\ PageStep([World EXCEPT !.speech.rec = startListening(@)])

StopListening ==
    /\ PageStep([World EXCEPT !.speech.rec = stopListening(@)])

\* the recognizer has started: its start event
RecognitionStarts ==
    /\ speech.rec.session = "starting"
    /\ PageStep([World EXCEPT
            !.speech.rec = recognitionOnstart([@ EXCEPT !.session = "active"])])

\* the recognizer fails while starting or active: its error event (the end
\* event follows)
RecognitionErrors ==
    /\ speech.rec.session \in {"starting", "active"}
    /\ PageStep([World EXCEPT
            !.speech.rec = recognitionOnerror([@ EXCEPT !.session = "ending"])])

\* the recognizer has stopped, by stop(), after an error or by itself at
\* the end of the speech: its end event
RecognitionEnds ==
    /\ speech.rec.session \in {"active", "ending"}
    /\ PageStep([World EXCEPT
            !.speech.rec = recognitionOnend([@ EXCEPT !.session = "idle"])])

(***************************************************************************)
(* Calls made on the AI service directly, and the clock.                   *)
(***************************************************************************)
AppStep(ai, lg) ==
    /\ aiService' = ai
    /\ log' = lg
    /\ UNCHANGED << engineVars, frame, outcome, history, page, speech, now >>

\* determineAvatarEmotion(responseText, userMessage) is applied to a text;
\* log.determined, log.text and log.emotion record the call
DetermineAvatarEmotion(text) ==
    LET emotion == determineAvatarEmotion(text)
    IN  AppStep(aiService, [log EXCEPT !.determined = TRUE, !.text = text,
                                       !.emotion = emotion])

\* Date.now() advances by a millisecond
Tick ==
    /\ now < MaxNow
    /\ now' = now + 1
    /\ UNCHANGED << engineVars, frame, outcome, history, page, speech, aiService, log >>

\* getAIService(config), config.rateLimitConfig being MaxRequests, WindowMs
GetAIService(constructed) ==
    /\ ~aiService.instance
    /\ AppStep(getAIService(aiService, MaxRequests, WindowMs, constructed), log)

\* getRateLimitStatus(): canMakeRequest, then getTimeUntilNextRequest
GetRateLimitStatus ==
    /\ aiService.instance
    /\ LET r == canMakeRequest(aiService.rateLimiter, now)
       IN  AppStep([aiService EXCEPT !.rateLimiter = r.limiter],
                   LogCanMakeRequest(log, now, aiService.rateLimiter.windowMs, r.result))

\* generateResponse(userMessage, history) called on the service
GenerateResponse ==
    /\ aiService.instance
    /\ aiService.inFlight < MaxInFlight
    /\ LET g == generateResponse(aiService, now)
       IN  AppStep(g.ai, LogGenerateResponse(log, aiService, g, now))

\* model.generateContent settles for a generateResponse call made on the
\* service directly
GenerateContentSettles(answered, text) ==
    /\ aiService.inFlight > 0
    /\ \A i \in 1..Len(page.tasks) : page.tasks[i].stage # "generating"
    /\ AppStep([aiService EXCEPT !.inFlight = @ - 1],
               LogSettled(log, generateContentSettles(answered, text), answered))

(***************************************************************************)
(* Spec: one session of the page (src/src/routes/+page.svelte, onMount):   *)
(* a single initialize call with use3D and readyPlayerMeUrl set, then any  *)
(* commands.                                                               *)
(***************************************************************************)
Next ==
    \/ /\ ~isInitialized /\ pendingLoads = << >>
       /\ \E rendererOk \in BOOLEAN : Initialize(TRUE, TRUE, TRUE, rendererOk)
    \/ Loads
    \/ \E textLength \in TextLengths : Speak(textLength)
    \/ \E emotion \in EmotionInputs : SetEmotion(emotion)
    \/ \E status \in StatusInputs : SetStatus(status)
    \/ StopSpeaking
    \/ StartAnimationLoop
    \/ StopAnimationLoop
    \/ PlayFunAnimation
    \/ FullReset
    \/ Callbacks

Spec == Init /\ [][Next]_vars

(***************************************************************************)
(* SpecLifecycle: any sequence of initialize and destroy calls, with one   *)
(* input for each command that schedules no callback of its own (speak and *)
(* playFunAnimation are explored under Spec).                              *)
(***************************************************************************)
NextLifecycle ==
    \/ \E in \in InitializeInputs : Initialize(in[1], in[2], in[3], in[4])
    \/ Loads
    \/ Destroy
    \/ SetEmotion("happy")
    \/ SetStatus("speaking")
    \/ StopSpeaking
    \/ StartAnimationLoop
    \/ StopAnimationLoop
    \/ FullReset
    \/ DisplayFrame
    \/ \E delta \in {0, FrameMs} : AnimateFrame(delta)
    \/ \E time \in BreathTimes : BreathingTick(time)

SpecLifecycle == Init /\ [][NextLifecycle]_vars

(***************************************************************************)
(* SpecDuration: one session in which speak is called with texts of every  *)
(* length up to MaxTextLength.                                             *)
(***************************************************************************)
NextDuration ==
    \/ /\ ~isInitialized /\ pendingLoads = << >>
       /\ \E rendererOk \in BOOLEAN : Initialize(TRUE, TRUE, TRUE, rendererOk)
    \/ Loads
    \/ \E textLength \in 0..MaxTextLength : Speak(textLength)
    \/ Callbacks

SpecDuration == Init /\ [][NextDuration]_vars

(***************************************************************************)
(* Vocabulary of the properties.                                           *)
(***************************************************************************)
\* the engine, scene and DOM state without the history flags
EngineView ==
    [State EXCEPT
        !.rafQueue = [i \in 1..Len(@) |-> [@[i] EXCEPT !.cancelled = FALSE]],
        !.timers = [i \in 1..Len(@) |-> [@[i] EXCEPT !.superseded = FALSE]],
        !.pendingLoads = [i \in 1..Len(@) |-> [beforeDestroy |-> FALSE]]]

Mode3D == use3D /\ ~fallbackMode

\* the callbacks of speaking cycles that are scheduled or about to run
ScheduledCycles == SelectSeq(rafQueue \o frame, LAMBDA c : c.kind = "animateSpeaking")

\* the targets the speaking cycle drives, on every registered mesh, are 0
SpeechTargetsAtZero ==
    \A m \in DOMAIN morphTargets : \A n \in DOMAIN morphTargets[m] :
        n \in mouthTargets \cup jawTargets => morphTargets[m][n] = 0

AllInfluencesZero ==
    \A m \in DOMAIN morphTargets : \A n \in DOMAIN morphTargets[m] :
        morphTargets[m][n] = 0

\* a command other than initialize and destroy is being called
CommandStep ==
    \/ \E textLength \in TextLengths : Speak(textLength)
    \/ \E emotion \in EmotionInputs : SetEmotion(emotion)
    \/ \E status \in StatusInputs : SetStatus(status)
    \/ StopSpeaking
    \/ StartAnimationLoop
    \/ StopAnimationLoop
    \/ FullReset

(***************************************************************************)
(* Properties.                                                             *)
(***************************************************************************)

\* C1: whenever the 3D setup of an initialize call fails (renderer
\* construction or model load) and the container can hold the fallback tree,
\* the call resolves with the service initialized in fallback mode; it never
\* rejects.  Stated on the state in which the call has just settled.
C1_Failed3DFallsBack ==
    (outcome.call = "initialize" /\ outcome.failed3D /\ outcome.containerOk)
        => /\ outcome.result = "resolved"
           /\ isReady(State)
           /\ getCapabilities(State).fallbackMode

\* C2: a command called while the service is not initialized changes
\* nothing of the engine, the scene or the DOM (no attribute or class
\* change, no timer or interval started).  The claim also has every such
\* call end with an error, which is stronger still.
C2_UninitializedCommandMutatesNothing ==
    [][(~isInitialized /\ CommandStep) => EngineView' = EngineView]_vars

\* C3: from the return of destroy() until the next initialize call the
\* service is not ready, whatever callback completes in between.
C3_DestroyedStaysUninitialized ==
    history.destroyed => ~isReady(State)

\* the state the specification gives for the return of fullReset(); the
\* fallback tree is built without a data-status attribute ("unset"), which
\* shows as idle
AfterFullReset ==
    /\ getCurrentEmotion(State) = "neutral"
    /\ HasFallbackTree(State) =>
            (dom.status \in {"idle", "unset"} /\ dom.emotion = "neutral")
    /\ AllInfluencesZero
    /\ ObjectKeys(animationActions) # << >> =>
            LET first == animationActions[1]
            IN  first.time = 0 /\ first.paused
    /\ ~breathingInterval
    /\ avatarModel.present =>
            /\ avatarModel.rotation = << 0, 0, 0 >>
            /\ avatarModel.position = << 0, -200, 0 >>
            /\ avatarModel.scale = 1000

\* C4: every fullReset() call on an initialized service returns with status
\* idle, emotion neutral, all morph influences 0, the driving clip at time 0
\* and paused, breathing stopped and the model at its default transform.
C4_FullResetRestoresBaseline ==
    [][(isInitialized /\ FullReset) => AfterFullReset']_vars

\* C5: every stopSpeaking() call in 3D mode returns with the mouth, jaw and
\* viseme influences at 0 and the model's rotation at its rest value.
C5_StopSpeakingResetsModel ==
    [][(isInitialized /\ Mode3D /\ StopSpeaking)
            => (SpeechTargetsAtZero /\ avatarModel.rotation = << 0, 0, 0 >>)']_vars

\* C6: a frame callback of a speaking cycle that runs after stopSpeaking() or
\* setStatus('idle') has returned writes no influence and no rotation.
C6_CancelledCycleWritesNothing ==
    [][(AnimateSpeakingFrame /\ Head(frame).cancelled)
            => ~CycleApplies(State, Head(frame))]_vars

\* C7: at most one speaking cycle has a frame callback scheduled.
C7_SingleSpeakingCycle ==
    Len(ScheduledCycles) <= 1

\* C8: the status shown by the fallback tree is the one written by the most
\* recent status command; no timer of an earlier command overwrites it.
C8_LatestStatusWins ==
    (isInitialized /\ HasFallbackTree(State) /\ history.lastStatus # "none")
        => dom.status = history.lastStatus

\* C9: every speak call on an initialized service estimates the speaking
\* duration as the larger of 60 ms per character and the floor of its mode:
\* 2000 ms for the frame cycle of 3D mode, 1000 ms for the end-of-speech
\* timer of fallback mode.
C9_DurationEstimate ==
    [][\A textLength \in 0..MaxTextLength :
          (isInitialized /\ Speak(textLength)) =>
              IF Mode3D
              THEN /\ Len(rafQueue') = Len(rafQueue) + 1
                   /\ rafQueue'[Len(rafQueue')].kind = "animateSpeaking"
                   /\ rafQueue'[Len(rafQueue')].duration =
                        (IF textLength * 60 > 2000 THEN textLength * 60 ELSE 2000)
              ELSE /\ Len(timers') = Len(timers) + 1
                   /\ timers'[Len(timers')].kind = "speechEnd"
                   /\ timers'[Len(timers')].remaining =
                        (IF textLength * 60 > 1000 THEN textLength * 60 ELSE 1000)]_vars

\* two cycles are in flight, one started at the floor and one above it
C9_Witness ==
    /\ isInitialized /\ Mode3D
    /\ \E i, j \in 1..Len(rafQueue) :
          /\ rafQueue[i].kind = "animateSpeaking" /\ rafQueue[i].duration = 2000
          /\ rafQueue[j].kind = "animateSpeaking" /\ rafQueue[j].duration = 2040

AnimationPolicy(status) ==
    IF status \in {"speaking", "thinking", "listening"}
    THEN IF animationActions # << >>
         THEN /\ animationActions[1].running /\ ~animationActions[1].paused
              /\ animationActions[1].loop = "repeat"
         ELSE breathingInterval
    ELSE IF animationActions # << >>
         THEN animationActions[1].time = 0 /\ animationActions[1].paused
         ELSE ~breathingInterval

\* C11: in 3D mode every setStatus call with a status other than the one
\* last set returns with the animation policy of that status in force.
C11_SetStatusAppliesPolicy ==
    [][\A status \in {"idle", "speaking", "thinking", "listening"} :
          (isInitialized /\ Mode3D /\ history.lastSetStatus # status /\ SetStatus(status))
              => AnimationPolicy(status)']_vars

\* the status values the specification names
KnownStatuses == {"idle", "listening", "thinking", "speaking", "error"}

\* C12: a setStatus call with a value outside KnownStatuses changes nothing:
\* the status attribute, the indicator text and the dot colour keep the
\* values of the previous status.
C12_UnknownStatusRejected ==
    [][\A status \in StatusInputs \ KnownStatuses :
          SetStatus(status) => EngineView' = EngineView]_vars

(***************************************************************************)
(* SpecEmotion: one session in which setEmotion is called with every label *)
(* of the EmotionMapping and with a label outside it, between speak calls. *)
(***************************************************************************)
EmotionLabels ==
    {"neutral", "happy", "concerned", "focused", "encouraging", "surprised"}

NextEmotion ==
    \/ /\ ~isInitialized /\ pendingLoads = << >>
       /\ \E rendererOk \in BOOLEAN : Initialize(TRUE, TRUE, TRUE, rendererOk)
    \/ Loads
    \/ \E emotion \in EmotionLabels : SetEmotion(emotion)
    \/ Speak(2)
    \/ Callbacks

SpecEmotion == Init /\ [][NextEmotion]_vars

\* the influence the EmotionProfile of a label gives a target, in thousandths
ProfileInfluence(label, target) ==
    CASE label = "happy" /\ target = "mouthSmile"       -> 800
      [] label = "happy" /\ target = "eyeSquint"        -> 300
      [] label = "concerned" /\ target = "browDown"     -> 600
      [] label = "concerned" /\ target = "mouthFrown"   -> 500
      [] label = "focused" /\ target = "browDown"       -> 300
      [] label = "focused" /\ target = "eyeSquint"      -> 500
      [] label = "encouraging" /\ target = "mouthSmile" -> 600
      [] label = "encouraging" /\ target = "browUp"     -> 400
      [] OTHER                                          -> 0

\* C13: every setEmotion(label) call in 3D mode returns with each target of
\* each registered mesh at the influence of label's profile, 0 for a target
\* outside the profile and for every target when the label is unknown,
\* whatever the influences were before.
C13_EmotionProfileApplied ==
    [][\A label \in EmotionLabels :
          (isInitialized /\ Mode3D /\ SetEmotion(label)) =>
              \A m \in DOMAIN morphTargets' : \A n \in DOMAIN morphTargets'[m] :
                  morphTargets'[m][n] = ProfileInfluence(label, n)]_vars

\* setEmotion('happy') has cleared the mouth influences a speaking cycle
\* wrote when it started, and set the smile
C13_Witness ==
    /\ isInitialized /\ Mode3D /\ currentEmotion = "happy"
    /\ \E i \in 1..Len(rafQueue) :
          rafQueue[i].kind = "animateSpeaking" /\ rafQueue[i].elapsed = 0
    /\ \E m \in DOMAIN morphTargets :
          /\ {"mouthSmile", "mouthOpen", "viseme_O"} \subseteq DOMAIN morphTargets[m]
          /\ morphTargets[m]["mouthSmile"] = 800
          /\ morphTargets[m]["mouthOpen"] = 0
          /\ morphTargets[m]["viseme_O"] = 0

\* C14: a second setEmotion(label) call right after the first changes
\* nothing: the influences, the current emotion and the data-emotion
\* attribute are those the first call left, in every mode and before
\* initialization.
C14_SetEmotionIdempotent ==
    [][\A label \in EmotionLabels :
          SetEmotion(label) => setEmotion(State, label)' = State']_vars

\* setEmotion('encouraging') has returned in 3D mode with the smile set
C14_Witness ==
    /\ isInitialized /\ Mode3D /\ outcome = Returned
    /\ getCurrentEmotion(State) = "encouraging"
    /\ \E m \in DOMAIN morphTargets :
          /\ {"mouthSmile", "browDown"} \subseteq DOMAIN morphTargets[m]
          /\ morphTargets[m]["mouthSmile"] = 600
          /\ morphTargets[m]["browDown"] = 0

\* an initialize call is being made
InitializeStep ==
    \E in \in InitializeInputs : Initialize(in[1], in[2], in[3], in[4])

\* C15: from the moment an initialize call resolves until destroy() or the
\* next initialize call, the mode (use3D, fallbackMode) does not change and
\* getCapabilities() keeps returning the same value.
C15_ModeFixed ==
    [][(history.resolved /\ ~InitializeStep /\ ~Destroy)
            => /\ use3D' = use3D
               /\ getCapabilities(State)' = getCapabilities(State)]_vars

\* C16: in every display frame in which a speaking cycle applies its
\* motion, the mixer update of that frame has run (an animate callback of
\* this frame has run and registered itself for the next one) and the
\* render of that frame is still to come (an animate callback of this
\* frame is still to run).
C16_OverridesBeforeRender ==
    [][(AnimateSpeakingFrame /\ CycleApplies(State, Head(frame)) /\ renderer /\ scene)
            => /\ RenderLoops(frame') > 0
               /\ RenderLoops(rafQueue) > 0]_vars

(***************************************************************************)
(* SpecTermination: one session with at most MaxSpeaks speak calls, in     *)
(* which display frames keep firing and every callback of a frame is run.  *)
(***************************************************************************)
NextTermination ==
    \/ /\ ~isInitialized /\ pendingLoads = << >>
       /\ \E rendererOk \in BOOLEAN : Initialize(TRUE, TRUE, TRUE, rendererOk)
    \/ Loads
    \/ \E textLength \in TextLengths : SpeakCounting(textLength, 1)
    \/ Callbacks

SpecTermination ==
    /\ Init /\ [][NextTermination]_vars
    /\ WF_vars(DisplayFrame)
    /\ WF_vars(\E delta \in {0, FrameMs} : AnimateFrame(delta))
    /\ WF_vars(AnimateSpeakingFrame)

\* the frame callback of a cycle whose duration has elapsed is running
TerminationStep == AnimateSpeakingFrame /\ ~CycleApplies(State, Head(frame))

MouthJawVisemeAtZero ==
    \A m \in DOMAIN morphTargets : \A n \in DOMAIN morphTargets[m] :
        (Includes(n, "mouth") \/ Includes(n, "jaw") \/ Includes(n, "viseme"))
            => morphTargets[m][n] = 0

\* C17: every speaking cycle started in 3D mode terminates: while cycles are
\* scheduled, a state with none scheduled follows.  The frame in which a
\* cycle ends does not schedule it again, leaves the rotation and the
\* mouth, jaw and viseme influences at 0, and leaves the animation actions
\* and the breathing loop as they were.
C17_CycleTerminates ==
    /\ (ScheduledCycles # << >>) ~> (ScheduledCycles = << >>)
    /\ [][TerminationStep =>
            /\ Len(ScheduledCycles') = Len(ScheduledCycles) - 1
            /\ avatarModel'.rotation = << 0, 0, 0 >>
            /\ MouthJawVisemeAtZero'
            /\ animationActions' = animationActions
            /\ breathingInterval' = breathingInterval]_vars

\* every counted cycle has ended and the looping clip started by speak is
\* still playing
C17_Witness ==
    /\ isInitialized /\ Mode3D /\ history.speaks = MaxSpeaks
    /\ ScheduledCycles = << >>
    /\ avatarModel.rotation = << 0, 0, 0 >> /\ MouthJawVisemeAtZero
    /\ animationActions # << >>
    /\ animationActions[1].running /\ ~animationActions[1].paused
    /\ animationActions[1].loop = "repeat"

\* C18: no frame of a speaking cycle, the one that ends it included, changes
\* a morph target outside the mouth and jaw targets the cycle drives; so
\* such a target has after the cycle the influence it had before.
C18_UndrivenTargetsUntouched ==
    [][AnimateSpeakingFrame =>
          \A m \in DOMAIN morphTargets : \A n \in DOMAIN morphTargets[m] :
              n \notin mouthTargets \cup jawTargets
                  => morphTargets'[m][n] = morphTargets[m][n]]_vars

\* C19: when speak returns in 3D mode, having run the first frame of the
\* new cycle, every morph influence which that frame did not write is 0.
C19_InfluencesClearedBeforeCycle ==
    [][(isInitialized /\ Mode3D /\ \E textLength \in TextLengths : Speak(textLength)) =>
          \A m \in DOMAIN morphTargets' : \A n \in DOMAIN morphTargets'[m] :
              n \notin mouthTargets \cup jawTargets => morphTargets'[m][n] = 0]_vars

\* C20: in every reachable state every morph influence lies between 0 and
\* 1 (0 and 1000 thousandths).
C20_InfluenceInUnitRange ==
    \A m \in DOMAIN morphTargets : \A n \in DOMAIN morphTargets[m] :
        morphTargets[m][n] >= 0 /\ morphTargets[m][n] <= 1000

\* C21: when destroy() returns, no window resize listener that an earlier
\* initialize of this service registered is still registered.
C21_DestroyReleasesListeners ==
    [][Destroy => resizeListeners' = 0]_vars


(***************************************************************************)
(* SpecPage: one session of the page: onMount initializes the engine and   *)
(* the AI service, then the user sends messages and presses the speaker    *)
(* button while the model answers and the browser speaks.                  *)
(***************************************************************************)
\* the reply and the message together
TextInputs ==
    {<< >>, << "great", "problem" >>, << "problem" >>, << "check" >>,
     << "easy", "fix" >>}

InitPage == InitEngine /\ \E synthesis \in BOOLEAN : InitApp(synthesis)

NextPage ==
    \/ /\ ~isInitialized /\ pendingLoads = << >>
       /\ \E rendererOk \in BOOLEAN : Initialize(TRUE, TRUE, TRUE, rendererOk)
    \/ Loads
    \/ \E keyed \in BOOLEAN, constructed \in BOOLEAN : OnMountContinues(keyed, constructed)
    \/ SendMessage
    \/ \E i \in 1..MaxTasks, answered \in BOOLEAN, text \in TextInputs :
            ResponseArrives(i, answered, text)
    \/ \E i \in 1..MaxTasks : DelayFires(i)
    \/ ToggleSpeaking
    \/ SpeechStarts
    \/ \E failed \in BOOLEAN : SpeechEnds(failed)
    \/ CancelledSpeechEnds
    \/ DisplayFrame
    \/ \E delta \in {0, FrameMs} : AnimateFrame(delta)
    \/ \E time \in BreathTimes : BreathingTick(time)

SpecPage == InitPage /\ [][NextPage]_vars

\* a step of the page that calls avatarService.setStatus('idle') or
\* avatarService.stopAnimationLoop(): the finally block of speakResponse,
\* and toggleSpeaking when it stops the speech or turns it off
AppliesIdle ==
    \/ CancelledSpeechEnds
    \/ \E failed \in BOOLEAN : SpeechEnds(failed)
    \/ /\ ToggleSpeaking
       /\ \/ page.speechEnabled
          \/ ~speech.synthesis /\ page.hasAssistantMessage /\ ~page.isSpeaking
    \/ \E i \in 1..MaxTasks : DelayFires(i) /\ ~speech.synthesis

\* C22: from the moment an utterance is handed to the speech synthesis until
\* that utterance ends or is cancelled, no step of the page applies
\* setStatus('idle') or stopAnimationLoop() to the initialized avatar.
C22_LoopActiveWhileSpeaking ==
    [][(isInitialized /\ speech.spoken # 0 /\ speech'.spoken = speech.spoken)
          => ~AppliesIdle]_vars


(***************************************************************************)
(* SpecAI: the AI service used directly: getAIService, then calls of       *)
(* getRateLimitStatus and generateResponse at any times from 0 to MaxNow,  *)
(* the model answering or failing.                                         *)
(***************************************************************************)
NextAI ==
    \/ \E constructed \in BOOLEAN : GetAIService(constructed)
    \/ Tick
    \/ GetRateLimitStatus
    \/ GenerateResponse
    \/ \E answered \in BOOLEAN, text \in TextInputs : GenerateContentSettles(answered, text)

SpecAI == Init /\ [][NextAI]_vars

\* C23: the canMakeRequest calls that returned true within any WindowMs
\* milliseconds (from a time t up to, not including, t + WindowMs) are at
\* most MaxRequests; and a call returns true whenever fewer than MaxRequests
\* admitted requests are less than WindowMs old.
C23_SlidingWindowLimit ==
    /\ \A i \in 1..Len(log.admitted) :
          Cardinality({j \in 1..Len(log.admitted) :
                          /\ log.admitted[i] <= log.admitted[j]
                          /\ log.admitted[j] < log.admitted[i] + WindowMs}) <= MaxRequests
    /\ (log.asked /\ log.within < MaxRequests) => log.answer

\* a call is refused after the window has slid and admitted new requests,
\* and a call was admitted at the moment the oldest request left the window
C23_Witness ==
    /\ log.asked /\ ~log.answer
    /\ Len(log.admitted) > MaxRequests
    /\ \E i \in 1..Len(log.admitted), j \in 1..Len(log.admitted) :
          log.admitted[j] = log.admitted[i] + WindowMs


\* C24: a generateResponse call whose model call failed resolves with the
\* fallback response, emotion 'concerned'; a call is rejected only because
\* the service is not initialized or because the rate limiter refused, never
\* after a model call; and the call the limiter refused made no model call.
C24_ModelFailureResolvesWithFallback ==
    /\ log.modelFailed =>
          log.generated = "resolved" /\ log.emotion = "concerned" /\ log.fallback
    /\ log.generated = "rejected" =>
          /\ ~log.modelFailed /\ ~log.calledByLast
          /\ \/ /\ log.error = "AI Service not initialized"
                /\ ~log.callInitialized
             \/ /\ log.error = "Rate limit exceeded"
                /\ log.callInitialized /\ log.callWithin >= MaxRequests

\* the model call of an admitted request failed and the call resolved with
\* the fallback response
C24_Witness ==
    /\ log.callInitialized /\ log.callWithin < MaxRequests /\ log.calledByLast
    /\ log.modelFailed /\ log.generated = "resolved"
    /\ log.emotion = "concerned" /\ log.fallback


\* C25: while the engine can render (it holds a renderer and a scene), at
\* most one animate callback is scheduled over the frame being processed and
\* the next one, so that the mixer is advanced and the scene rendered at
\* most once per display frame.
C25_SingleRenderLoop ==
    (renderer /\ scene) => RenderLoops(rafQueue) + RenderLoops(frame) <= 1


\* what fullReset resets and a later callback may disturb: the model's
\* transform, the morph influences, each clip's time and paused flag, and
\* the status attributes of the fallback tree
ResetView ==
    << avatarModel, morphTargets,
       [i \in DOMAIN animationActions |->
            << animationActions[i].time, animationActions[i].paused >>],
       IF HasFallbackTree(State) THEN << dom.status, dom.text, dom.dot, dom.mouth >>
       ELSE << >> >>

\* C26: once fullReset() has returned on an initialized service, and as long
\* as no further command is issued, no frame callback, timer or interval
\* changes the transform, a morph influence, a clip's time or paused flag
\* or the status attributes.
C26_ResetStatePersists ==
    [][(isInitialized /\ outcome.call = "fullReset" /\ outcome'.call = "fullReset"
          /\ ~FullReset) => ResetView' = ResetView]_vars


\* the state startAnimationLoop() is to leave in 3D mode: with a clip loaded
\* (the mixer exists) the driving clip plays from time 0, unpaused, in
\* repeat mode; without one the manual breathing interval runs
LoopStarted ==
    IF mixer
    THEN /\ animationActions # << >>
         /\ animationActions[1].running /\ animationActions[1].time = 0
         /\ ~animationActions[1].paused /\ animationActions[1].loop = "repeat"
    ELSE breathingInterval

\* the state stopAnimationLoop() is to leave in 3D mode: with a clip loaded
\* the driving clip is at time 0 and paused; without one no breathing
\* interval runs and the model is at scale 1, position y -0.2
LoopStopped ==
    IF mixer
    THEN /\ animationActions # << >>
         /\ animationActions[1].time = 0 /\ animationActions[1].paused
    ELSE /\ ~breathingInterval
         /\ avatarModel.present =>
                avatarModel.scale = 1000 /\ avatarModel.position[2] = -200

\* C27: in 3D mode every startAnimationLoop() call returns with the loop
\* started and every stopAnimationLoop() call with the loop stopped,
\* whatever calls and callbacks came before.
C27_AnimationLoopPostconditions ==
    [][/\ (isInitialized /\ Mode3D /\ StartAnimationLoop) => LoopStarted'
       /\ (isInitialized /\ Mode3D /\ StopAnimationLoop) => LoopStopped']_vars

\* startAnimationLoop() has restarted the clip while the timer of an earlier
\* playFunAnimation() is still pending
C27_Witness ==
    /\ isInitialized /\ Mode3D /\ mixer /\ LoopStarted
    /\ \E i \in 1..Len(timers) : timers[i].kind = "funReset"


(***************************************************************************)
(* SpecClips: one 3D session whose asset has any list of up to MaxClips    *)
(* clips named from ClipNames (names may repeat and may be array indices), *)
(* then the commands that play a clip.                                     *)
(***************************************************************************)
ClipNames == {"Talking", "Idle", "0", "1"}

ClipLists ==
    UNION {[1..n -> ClipNames] : n \in 0..MaxClips}

ClipAssets ==
    {[clips  |-> [i \in DOMAIN names |-> [name |-> names[i], duration |-> 2000]],
      meshes |-> [Wolf3D_Head |-> HeadTargets]] : names \in ClipLists}

NextClips ==
    \/ /\ ~isInitialized /\ pendingLoads = << >>
       /\ \E rendererOk \in BOOLEAN : Initialize(TRUE, TRUE, TRUE, rendererOk)
    \/ \E asset \in ClipAssets, delta \in {0, FrameMs} : LoadSucceeds(1, asset, delta)
    \/ LoadFails(1)
    \/ StartAnimationLoop
    \/ StopAnimationLoop
    \/ PlayFunAnimation
    \/ FullReset
    \/ DisplayFrame
    \/ \E delta \in {0, FrameMs} : AnimateFrame(delta)
    \/ \E i \in 1..MaxTimers : TimerFires(i)
    \/ \E time \in BreathTimes : BreathingTick(time)

SpecClips == Init /\ [][NextClips]_vars

\* C28: the current animation is unset or the action of the first clip of
\* the asset's animation list, and no action of another clip is played.
C28_FirstClipIsSoleDriver ==
    /\ currentAnimation # "none" =>
          LET i == ActionIndex(animationActions, currentAnimation)
          IN  i # 0 /\ animationActions[i].clip = 1
    /\ \A i \in 1..Len(animationActions) :
          animationActions[i].running => animationActions[i].clip = 1


\* what the clip logic works on: the clip actions and the current one, the
\* morph influences and the model's transform
ClipView == << animationActions, currentAnimation, morphTargets, avatarModel >>

\* C29: while the initialized engine is in fallback mode, showing the
\* fallback tree, and no asset load is in flight, no step plays or resets an
\* animation action, writes a morph influence or the model's transform, and
\* no breathing interval is running.
C29_NoClipLogicInFallback ==
    [][(isInitialized /\ fallbackMode /\ HasFallbackTree(State) /\ pendingLoads = << >>
          /\ isInitialized' /\ fallbackMode')
          => (ClipView' = ClipView /\ ~breathingInterval')]_vars


\* no model is installed and the container shows the fallback tree alone
NothingInstalled ==
    /\ ~avatarModel.present /\ ~mixer
    /\ animationActions = << >> /\ morphTargets = << >>
    /\ dom.kind = "fallback"

\* C30: when a failed asset load has made initialize resolve in fallback
\* mode, the engine holds no model, no mixer, no clip action and no
\* registered morph mesh, and the container holds the fallback tree only.
C30_FailedLoadInstallsNothing ==
    [][((\E i \in 1..MaxPending : LoadFails(i))
            /\ outcome'.result = "resolved" /\ fallbackMode')
          => NothingInstalled']_vars


\* the amplitude of the head sway, in thousandths of a radian
SwayAmplitude == 100

\* C31: a frame of a speaking cycle that applies the speech motion leaves
\* the model's rotation as a function of the elapsed time alone -- x the nod,
\* y the sway, z the shoulder move of that elapsed time -- and the yaw stays
\* within the sway amplitude.
C31_RotationFromElapsedTime ==
    [][(AnimateSpeakingFrame /\ CycleApplies(State, Head(frame)))
          => /\ avatarModel'.rotation =
                    << HeadNod(Head(frame).elapsed), HeadSway(Head(frame).elapsed),
                       ShoulderMove(Head(frame).elapsed) >>
             /\ avatarModel'.rotation[2] <= SwayAmplitude
             /\ avatarModel'.rotation[2] >= 0 - SwayAmplitude]_vars


\* the animation loop is active: the driving clip (the first registered
\* action) is playing, unpaused, in repeat mode -- the state only
\* startAnimationLoop's playAnimation(clip, true) produces
LoopDriving ==
    /\ mixer /\ animationActions # << >>
    /\ animationActions[1].running /\ ~animationActions[1].paused
    /\ animationActions[1].loop = "repeat"

\* C32: in 3D mode, once startAnimationLoop() has set the driving clip
\* looping, no step other than stopAnimationLoop(), fullReset() or destroy()
\* -- no playFunAnimation() call and no delayed reset timer -- pauses it or
\* switches it to play-once mode.
C32_LoopSurvivesFunAnimation ==
    [][(isInitialized /\ Mode3D /\ LoopDriving
          /\ ~StopAnimationLoop /\ ~FullReset /\ ~Destroy)
          => LoopDriving']_vars


(***************************************************************************)
(* SpecDestroy: one session of the engine -- one initialize call of any    *)
(* kind, then speak, playFunAnimation and startAnimationLoop calls -- that  *)
(* destroy() ends at any moment, with the callbacks the session scheduled  *)
(* still to run.                                                           *)
(***************************************************************************)
NextDestroy ==
    \/ /\ ~isInitialized /\ pendingLoads = << >> /\ ~history.destroyed
       /\ \E in \in InitializeInputs : Initialize(in[1], in[2], in[3], in[4])
    \/ Loads
    \/ \E textLength \in TextLengths : Speak(textLength)
    \/ PlayFunAnimation
    \/ StartAnimationLoop
    \/ Destroy
    \/ Callbacks

SpecDestroy == Init /\ [][NextDestroy]_vars

\* the scene (renderer, scene, model, mixer, clip actions, morph meshes) and
\* the contents of the container
SceneAndDom ==
    << renderer, scene, avatarModel, mixer, animationActions, currentAnimation,
       morphTargets, dom >>

\* destroy() has returned with no load in flight, and nothing was called since
Destroyed == history.destroyed /\ ~isInitialized /\ pendingLoads = << >>

\* C33: after destroy() has returned, no callback the engine scheduled
\* before -- render frame, speaking frame, breathing interval, fun animation
\* timer, fallback end-of-speech timer -- changes the scene or the DOM.
C33_NoCallbackMutatesAfterDestroy ==
    [][(Destroyed /\ Callbacks) => SceneAndDom' = SceneAndDom]_vars


\* C34: on an initialized engine the manual breathing interval runs only
\* while no animation clip is registered, and every stopAnimationLoop(),
\* fullReset() and destroy() call returns with no breathing interval
\* running, whatever startAnimationLoop and initialize calls came before.
\* (The engine keeps one interval id and startManualBreathingLoop returns
\* when it is set: a second interval is never created.)
C34_BreathingOnlyWithoutClips ==
    [][/\ (isInitialized' /\ breathingInterval') => animationActions' = << >>
       /\ (isInitialized /\ (StopAnimationLoop \/ FullReset \/ Destroy))
              => ~breathingInterval']_vars


(***************************************************************************)
(* SpecQueue: up to MaxSpeakCalls speakContinuous calls, made at any       *)
(* moment relative to the start and end events of the utterances; every    *)
(* utterance handed to the synthesis can be spoken to its end, and         *)
(* stopSpeaking is called by speak alone.                                  *)
(***************************************************************************)
NextQueue ==
    \/ SpeakContinuous
    \/ SpeechStarts
    \/ QueuedSpeechEnds
    \/ QueuedCancelledSpeechEnds

SpecQueue == Init /\ [][NextQueue]_vars

\* the synthesis speaks nothing and has no event left to deliver
SpeechQuiet == speech.spoken = 0 /\ speech.events = << >>

\* C35: once the synthesis has fallen silent, the texts it spoke to their
\* end are the texts passed to speakContinuous, each once and in call order:
\* none was dropped from the queue and none was cancelled by a later text.
C35_QueueSpeaksAllInOrder ==
    SpeechQuiet => speech.heard = [i \in 1..speech.calls |-> i]


(***************************************************************************)
(* SpecListen: up to MaxListenCalls startListening calls and any number of *)
(* stopListening calls, made at any moment relative to the recognizer's    *)
(* start, error and end events.                                            *)
(***************************************************************************)
NextListen ==
    \/ StartListening
    \/ StopListening
    \/ RecognitionStarts
    \/ RecognitionErrors
    \/ RecognitionEnds

SpecListen == Init /\ [][NextListen]_vars

\* C36: from the return of stopListening() until the next startListening
\* call, getListeningStatus() is false and no recognition session is
\* active, whenever the stop came relative to the start event.
C36_StoppedStaysNotListening ==
    speech.rec.stopped =>
        /\ ~getListeningStatus(speech.rec)
        /\ speech.rec.session # "active"


\* C37: a startListening() call made while the recognizer is active or
\* waiting for its start event is rejected with 'Already listening', calls
\* recognition.start() no further time and leaves the recognizer's handlers
\* those of the earlier call.
C37_SingleRecognitionSession ==
    [][(StartListening /\ speech.rec.session \in {"starting", "active"})
          => /\ speech'.rec.promises[Len(speech'.rec.promises)] = "Already listening"
             /\ speech'.rec.starts = speech.rec.starts
             /\ speech'.rec.handlers = speech.rec.handlers]_vars


\* the requests the limiter counts at this moment: the recorded ones still
\* inside the window
CountedRequests ==
    FilterRequests(aiService.rateLimiter.requests, now, aiService.rateLimiter.windowMs)

\* C38: a getRateLimitStatus() call leaves the requests the rate limiter
\* counts as they were: it records no request of its own, and so takes no
\* place in the window from a later generateResponse.
C38_RateLimitStatusIsReadOnly ==
    [][GetRateLimitStatus => CountedRequests' = CountedRequests]_vars


(***************************************************************************)
(* SpecKeywords: determineAvatarEmotion applied to every text of at most   *)
(* two keywords, with or without a word that is no keyword in between.     *)
(***************************************************************************)
KeywordTexts ==
    {<< >>, << "hello" >>} \cup Keywords
        \cup {k1 \o k2 : k1 \in Keywords, k2 \in Keywords}
        \cup {k1 \o << "hello" >> \o k2 : k1 \in {<< "no" >>, << "look" >>},
                                          k2 \in {<< "problem" >>, << "at" >>}}

NextKeywords == \E text \in KeywordTexts : DetermineAvatarEmotion(text)

SpecKeywords == Init /\ [][NextKeywords]_vars

\* the label of the group a keyword belongs to
GroupLabel(keyword) ==
    CASE keyword \in HappyKeywords       -> "happy"
      [] keyword \in ConcernedKeywords   -> "concerned"
      [] keyword \in FocusedKeywords     -> "focused"
      [] keyword \in EncouragingKeywords -> "encouraging"

GroupOrder == << "happy", "concerned", "focused", "encouraging" >>

\* the groups with a keyword that occurs in the text, as places in GroupOrder
MatchingGroups(text) ==
    {g \in 1..Len(GroupOrder) :
        \E keyword \in Keywords :
            GroupLabel(keyword) = GroupOrder[g] /\ TextIncludes(text, keyword)}

\* C39: determineAvatarEmotion returns one of the five labels: the label of
\* the first group, in the order happy, concerned, focused, encouraging,
\* with a keyword that occurs in the text, neutral when there is none; and
\* a text that consists of one keyword gets the label of that keyword's
\* group ('no problem' gets 'encouraging').
C39_KeywordGroupsDecideEmotion ==
    log.determined =>
        /\ log.emotion \in {"neutral", "happy", "concerned", "focused", "encouraging"}
        /\ log.emotion =
              IF MatchingGroups(log.text) = {} THEN "neutral"
              ELSE GroupOrder[CHOOSE g \in MatchingGroups(log.text) :
                                 \A h \in MatchingGroups(log.text) : g <= h]
        /\ log.text \in Keywords => log.emotion = GroupLabel(log.text)

=============================================================================
